---- MODULE Spec2Model ----
(***************************************************************************)
(* A model of the vLLM production-stack router: the routing policies       *)
(* (router/routing_logic.py), the request statistics monitor               *)
(* (vllm_router/stats/request_stats.py) and the streaming request handler  *)
(* (vllm_router/services/request_service/request.py).                      *)
(*                                                                         *)
(* Urls are the numbers 1..NumUrls: url k stands for the k-th url in       *)
(* lexicographic order ("http://a" < "http://b" < ...), so that Python's   *)
(* sorted(endpoints, key=lambda e: e.url) is a sort by number.             *)
(***************************************************************************)
EXTENDS Integers, Sequences, FiniteSets, TLC

\* ---------------------------------------------------------------- bounds
\* Number of distinct backend urls the routing policies are tried on.
NumUrls == 3
\* RoundRobinRouter.req_id is an unbounded Python int: calls stop at MaxCalls.
MaxCalls == 5
\* The qps values of the request_stats handed to a router are 0..MaxQps.
MaxQps == 2

\* Number of backend urls the monitor and the request handler are tried on.
NumEngines == 2
\* The monitor's window, --request-stats-window, in clock ticks.
sliding_window_size == 1
\* time.time() runs from 0 to MaxTime.
MaxTime == 2
\* The monitor's counters are unbounded Python ints: direct calls into the
\* monitor stop after MaxEvents.
MaxEvents == 4

\* Number of requests the handler serves, each by its own coroutine.
NumHandlers == 2

\* Number of distinct EngineStats values a scrape may return.
NumStats == 2

\* Number of pods the Kubernetes watch reports events for.
NumPods == 2

\* Longest list of backends a static configuration gives.
MaxBackends == 2

\* Number of distinct sliding_window_size values given to constructions.
NumWindowSizes == 2

\* Constructions of RequestStatsMonitor stop after MaxObjects objects.
MaxObjects == 4

\* Service discovery instances constructed: at most MaxInstances.
MaxInstances == 3

\* Batches created: at most MaxBatches.
MaxBatches == 2

\* ------------------------------------------------------------ data model
Urls == 1..NumUrls

\* Python's None where a url is expected (_qps_routing starts with ret = None).
None_url == 0

\* Python's None where a timestamp is expected (first_query_time).
None_time == -1

\* The urls of the engines behind the monitor and the handler.
EngineUrls == 1..NumEngines

\* The X-Request-Id value a client may send (two requests may both carry it);
\* NoRequestId is the absent header.
RequestIds == {<<"client", 1>>}
NoRequestId == <<"none", 0>>

Handlers == 1..NumHandlers

\* str(uuid.uuid4()): an id no client sends and no other request gets.
uuid4(h) == <<"uuid4", h>>

\* The request ids direct calls into the monitor are made with.
MonitorIds == RequestIds \cup {uuid4(1)}

\* The model field of a request body; NoModel is a body without the field and
\* InvalidJson a body that json cannot parse.
NoModel == "None"
InvalidJson == "invalid json"
RequestedModels == {NoModel, "m1", "m3", "alias2"}

\* service_discovery.aliases: alias -> model. No engine serves "m3".
aliases == [a \in {"alias2"} |-> "m2"]

\* The id query parameter; NoEndpointId when the request has none.
NoEndpointId == "None"
EndpointIds == {"engine-1"}

\* The session header values tried; request.headers.get(key, None) gives
\* NoHeader when the request carries no such header.
SessionIds == {"abc123", "session4"}
NoHeader == "None"

\* The models each backend serves (EndpointInfo.model_names).
model_names(u) == IF u = 1 THEN {"m1"} ELSE {"m1", "m2"}

EndpointInfo(u) == [url |-> u, model_names |-> model_names(u)]

Range(s) == {s[k] : k \in 1..Len(s)}

UrlsOf(endpoints) == {endpoints[k].url : k \in 1..Len(endpoints)}

\* Lists of distinct elements of S, of every length from lo to |S|.
DistinctSeqs(S, lo) ==
    {s \in UNION {[1..n -> S] : n \in lo..Cardinality(S)} :
        \A i, j \in 1..Len(s) : i # j => s[i] # s[j]}

\* The non-empty endpoint lists a router is called with: each url at most once,
\* in any order.
EndpointLists == {[k \in 1..Len(s) |-> EndpointInfo(s[k])] : s \in DistinctSeqs(Urls, 1)}

EmptyMap == [x \in {} |-> None_url]

\* request_stats as a router sees it: url -> RequestStats, some urls without an
\* entry. Only the qps field is read by the routers.
RequestStatsMaps ==
    UNION {[D -> [qps : 0..MaxQps]] : D \in SUBSET Urls}

\* ---------------------------------------------------------------- sorted
\* sorted(endpoints, key=lambda e: e.url): a stable insertion sort by url.
RECURSIVE SortedByUrl(_)
SortedByUrl(endpoints) ==
    IF endpoints = <<>> THEN <<>>
    ELSE LET e == Head(endpoints)
             rest == SortedByUrl(Tail(endpoints))
             n == Cardinality({k \in 1..Len(rest) : rest[k].url < e.url})
         IN  SubSeq(rest, 1, n) \o <<e>> \o SubSeq(rest, n + 1, Len(rest))

\* -------------------------------------------------------- RoundRobinRouter
\* A route_request that indexes the list as given, unsorted.
RoundRobinRouteUnsorted(endpoints, i) ==
    [ret |-> endpoints[(i % Len(endpoints)) + 1].url, req_id |-> i + 1,
     endpoints |-> endpoints]

\* A route_request that sorts the caller's list in place (endpoints.sort).
RoundRobinRouteSortingInPlace(endpoints, i) ==
    LET len_engines == Len(endpoints)
        ret == SortedByUrl(endpoints)[(i % len_engines) + 1]
    IN  [ret |-> ret.url, req_id |-> i + 1, endpoints |-> SortedByUrl(endpoints)]

\* route_request: the url returned, the counter after the call, and the
\* caller's endpoints list after the call (sorted() builds a new list and
\* leaves the argument as it is).
RoundRobinRoute(endpoints, i) ==
    LET len_engines == Len(endpoints)
        ret == SortedByUrl(endpoints)[(i % len_engines) + 1]
    IN  [ret |-> ret.url, req_id |-> i + 1, endpoints |-> endpoints]

\* ----------------------------------------------------------- SessionRouter
\* int(hashlib.sha256(session_id.encode()).hexdigest(), 16), reduced modulo
\* 2520 = lcm(1..10): the reduction keeps the digest's residue modulo every
\* list length up to 10. The values are those of the real digests.
Sha256Int(session_id) ==
    CASE session_id = "abc123" -> 848
      [] session_id = "session4" -> 1919

\* _qps_routing: the loop over endpoints from position k on, with lowest_qps
\* (<<>> is float("inf")) and ret as they stand.
RECURSIVE QpsLoop(_, _, _, _, _)
QpsLoop(endpoints, request_stats, k, lowest_qps, ret) ==
    IF k > Len(endpoints) THEN ret
    ELSE LET url == endpoints[k].url
         IN  IF url \notin DOMAIN request_stats THEN url
             ELSE IF lowest_qps = <<>> \/ request_stats[url].qps < lowest_qps[1]
                  THEN QpsLoop(endpoints, request_stats, k + 1,
                               <<request_stats[url].qps>>, url)
                  ELSE QpsLoop(endpoints, request_stats, k + 1, lowest_qps, ret)

\* A _qps_routing that counts a missing entry as qps 0 and takes the last of
\* the endpoints of minimal qps.
QpsRoutingLast(endpoints, request_stats) ==
    LET q(u) == IF u \in DOMAIN request_stats THEN request_stats[u].qps ELSE 0
        best == {k \in 1..Len(endpoints) :
                    \A j \in 1..Len(endpoints) : q(endpoints[k].url) <= q(endpoints[j].url)}
    IN  endpoints[CHOOSE k \in best : \A j \in best : j <= k].url

qps_routing(endpoints, request_stats) ==
    QpsLoop(endpoints, request_stats, 1, <<>>, None_url)

\* A route_request that hashes the session id on every call.
SessionRouteRehash(endpoints, request_stats, session_id, table) ==
    IF session_id = NoHeader
    THEN [ret |-> qps_routing(endpoints, request_stats), table |-> table,
          endpoints |-> endpoints, request_stats |-> request_stats]
    ELSE LET url == endpoints[(Sha256Int(session_id) % Len(endpoints)) + 1].url
         IN  [ret |-> url,
              table |-> [s \in DOMAIN table \cup {session_id} |->
                            IF s = session_id THEN url ELSE table[s]],
              endpoints |-> endpoints, request_stats |-> request_stats]

\* route_request: the url returned, the session table after the call, and
\* the caller's endpoints list and request_stats after the call (both are
\* only read: indexed, iterated and tested for membership).
SessionRoute(endpoints, request_stats, session_id, table) ==
    IF session_id = NoHeader
    THEN [ret |-> qps_routing(endpoints, request_stats), table |-> table,
          endpoints |-> endpoints, request_stats |-> request_stats]
    ELSE IF session_id \notin DOMAIN table
    THEN LET index == Sha256Int(session_id) % Len(endpoints)
             url == endpoints[index + 1].url
         IN  [ret |-> url,
              table |-> [s \in DOMAIN table \cup {session_id} |->
                            IF s = session_id THEN url ELSE table[s]],
              endpoints |-> endpoints, request_stats |-> request_stats]
    ELSE [ret |-> table[session_id], table |-> table,
          endpoints |-> endpoints, request_stats |-> request_stats]

\* ----------------------------------------------------- MovingAverageMonitor
\* One sliding window: parallel deques of timestamps and values.
NewWindow == [timestamps |-> <<>>, values |-> <<>>]

\* An eviction loop that also pops the entries exactly one window old.
RECURSIVE EvictInclusive(_, _)
EvictInclusive(w, timestamp) ==
    IF Len(w.timestamps) > 0 /\ w.timestamps[1] <= timestamp - sliding_window_size
    THEN EvictInclusive([timestamps |-> Tail(w.timestamps),
                         values |-> Tail(w.values)], timestamp)
    ELSE w

\* The eviction loop of update and update_no_value: pop from the left while
\* the oldest timestamp is older than timestamp - sliding_window_size.
RECURSIVE Evict(_, _)
Evict(w, timestamp) ==
    IF Len(w.timestamps) > 0 /\ w.timestamps[1] < timestamp - sliding_window_size
    THEN Evict([timestamps |-> Tail(w.timestamps), values |-> Tail(w.values)],
               timestamp)
    ELSE w

update(w, timestamp, value) ==
    Evict([timestamps |-> Append(w.timestamps, timestamp),
           values |-> Append(w.values, value)], timestamp)

\* An update_no_value that evicts nothing.
update_no_value_keep(w, timestamp) == w

update_no_value(w, timestamp) == Evict(w, timestamp)

RECURSIVE SeqSum(_)
SeqSum(s) == IF s = <<>> THEN 0 ELSE Head(s) + SeqSum(Tail(s))

get_sum(w) == SeqSum(w.values)

\* sum(values) / len(values) as the fraction num/den, or -1 for an empty window.
get_average(w) ==
    IF Len(w.values) > 0 THEN [num |-> SeqSum(w.values), den |-> Len(w.values)]
    ELSE [num |-> -1, den |-> 1]

\* ------------------------------------------------------ RequestStatsMonitor
\* dict.get(key, default) and dict[key] = value.
Get(d, key, default) == IF key \in DOMAIN d THEN d[key] ELSE default

Put(d, key, value) ==
    [x \in DOMAIN d \cup {key} |-> IF x = key THEN value ELSE d[x]]

Max(a, b) == IF a >= b THEN a ELSE b

\* RequestStatsMonitor.__init__
NewMonitor ==
    [qps_monitors |-> EmptyMap,
     ttft_monitors |-> EmptyMap,
     request_start_time |-> EmptyMap,
     first_token_time |-> EmptyMap,
     in_prefill_requests |-> EmptyMap,
     in_decoding_requests |-> EmptyMap,
     finished_requests |-> EmptyMap,
     latency_monitors |-> EmptyMap,
     decoding_length_monitors |-> EmptyMap,
     swapped_requests |-> EmptyMap,
     first_query_time |-> None_time]

\* An on_new_request that sets in_prefill_requests to 1 instead of adding 1.
on_new_request_overwriting(m, engine_url, request_id, timestamp) ==
    [m EXCEPT
       !.request_start_time = Put(@, <<engine_url, request_id>>, timestamp),
       !.in_prefill_requests = Put(@, engine_url, 1),
       !.qps_monitors =
           Put(@, engine_url, update(Get(@, engine_url, NewWindow), timestamp, 1)),
       !.first_query_time = IF @ = None_time THEN timestamp ELSE @]

on_new_request(m, engine_url, request_id, timestamp) ==
    [m EXCEPT
       !.request_start_time = Put(@, <<engine_url, request_id>>, timestamp),
       !.in_prefill_requests = Put(@, engine_url, Get(@, engine_url, 0) + 1),
       !.qps_monitors =
           Put(@, engine_url, update(Get(@, engine_url, NewWindow), timestamp, 1)),
       !.first_query_time = IF @ = None_time THEN timestamp ELSE @]

\* An on_request_response without the clamp at 0.
on_request_response_unclamped(m, engine_url, request_id, timestamp) ==
    IF <<engine_url, request_id>> \notin DOMAIN m.request_start_time THEN m
    ELSE [m EXCEPT
       !.first_token_time = Put(@, <<engine_url, request_id>>, timestamp),
       !.in_prefill_requests = Put(@, engine_url, Get(@, engine_url, 1) - 1),
       !.in_decoding_requests = Put(@, engine_url, Get(@, engine_url, 0) + 1),
       !.ttft_monitors =
           Put(@, engine_url,
               update(Get(@, engine_url, NewWindow), timestamp,
                      timestamp - m.request_start_time[<<engine_url, request_id>>]))]

on_request_response(m, engine_url, request_id, timestamp) ==
    IF <<engine_url, request_id>> \notin DOMAIN m.request_start_time THEN m
    ELSE [m EXCEPT
       !.first_token_time = Put(@, <<engine_url, request_id>>, timestamp),
       !.in_prefill_requests = Put(@, engine_url, Max(0, Get(@, engine_url, 1) - 1)),
       !.in_decoding_requests = Put(@, engine_url, Get(@, engine_url, 0) + 1),
       !.ttft_monitors =
           Put(@, engine_url,
               update(Get(@, engine_url, NewWindow), timestamp,
                      timestamp - m.request_start_time[<<engine_url, request_id>>]))]

\* The TTFT sample on_request_response appends to the url's window: the
\* timestamp minus the start time stored under (engine_url, request_id);
\* none when no start time is stored.
ttft_sample(m, engine_url, request_id, timestamp) ==
    IF <<engine_url, request_id>> \notin DOMAIN m.request_start_time
    THEN None_time
    ELSE timestamp - m.request_start_time[<<engine_url, request_id>>]

\* An on_request_complete that leaves in_decoding_requests as it is.
on_request_complete_nodecrement(m, engine_url, request_id, timestamp) ==
    [m EXCEPT !.finished_requests = Put(@, engine_url, Get(@, engine_url, 0) + 1)]

on_request_complete(m, engine_url, request_id, timestamp) ==
    [m EXCEPT
       !.in_decoding_requests = Put(@, engine_url, Max(0, Get(@, engine_url, 1) - 1)),
       !.finished_requests = Put(@, engine_url, Get(@, engine_url, 0) + 1)]

on_request_swapped(m, engine_url, request_id, timestamp) ==
    [m EXCEPT !.swapped_requests = Put(@, engine_url, Get(@, engine_url, 0) + 1)]

\* The urls get_request_stats iterates over.
StatsUrls(m) == DOMAIN m.in_prefill_requests \cup DOMAIN m.in_decoding_requests

\* A get_request_stats that adds a sample to every window it reads.
get_request_stats_state_sampling(m, current_time) ==
    [m EXCEPT
       !.qps_monitors =
           [u \in DOMAIN @ |-> update(@[u], current_time, 0)],
       !.ttft_monitors =
           [u \in DOMAIN @ |-> update(@[u], current_time, 0)]]

\* get_request_stats, its effect on the monitor: the qps and ttft windows of
\* every url it iterates over are evicted up to current_time.
get_request_stats_state(m, current_time) ==
    [m EXCEPT
       !.qps_monitors =
           [u \in DOMAIN @ |-> IF u \in StatsUrls(m)
                               THEN update_no_value(@[u], current_time) ELSE @[u]],
       !.ttft_monitors =
           [u \in DOMAIN @ |-> IF u \in StatsUrls(m)
                               THEN update_no_value(@[u], current_time) ELSE @[u]]]

\* get_request_stats, the dict returned. qps is held in units of
\* 1/sliding_window_size (the window's sum; the code divides it by the window
\* size), so its -1 is -sliding_window_size in these units.
get_request_stats(m, current_time) ==
    LET after == get_request_stats_state(m, current_time)
    IN  [engine_url \in StatsUrls(m) |->
           [qps |-> IF engine_url \notin DOMAIN m.qps_monitors
                    THEN -sliding_window_size
                    ELSE get_sum(after.qps_monitors[engine_url]),
            ttft |-> IF engine_url \notin DOMAIN m.ttft_monitors
                     THEN [num |-> -1, den |-> 1]
                     ELSE get_average(after.ttft_monitors[engine_url]),
            in_prefill_requests |-> Get(m.in_prefill_requests, engine_url, 0),
            in_decoding_requests |-> Get(m.in_decoding_requests, engine_url, 0),
            finished_requests |-> Get(m.finished_requests, engine_url, 0),
            uptime |-> IF m.first_query_time # None_time /\ m.first_query_time # 0
                       THEN current_time - m.first_query_time ELSE 0,
            avg_decoding_length |->
                IF engine_url \in DOMAIN m.decoding_length_monitors
                THEN get_average(m.decoding_length_monitors[engine_url])
                ELSE [num |-> -1, den |-> 1],
            avg_latency |->
                IF engine_url \in DOMAIN m.latency_monitors
                THEN get_average(m.latency_monitors[engine_url])
                ELSE [num |-> -1, den |-> 1],
            avg_itl |-> [num |-> -1, den |-> 1],
            num_swapped_requests |-> Get(m.swapped_requests, engine_url, 0)]]

\* What the calls made into the monitor so far were, per url: new_calls is the
\* timestamps of its on_new_request calls, in call order; stage follows its
\* calls as long as they are the lifecycle of one request and nothing else
\* (0: no call yet, 1: on_new_request(u, r, t0), 2: then
\* on_request_response(u, r, t1), 3: then on_request_complete(u, r, t2), -1:
\* any other sequence of calls for the url).
NoHistory ==
    [u \in EngineUrls |->
        [stage |-> 0, r |-> NoRequestId, t0 |-> None_time, t1 |-> None_time,
         t2 |-> None_time, new_calls |-> <<>>]]

Record(history, kind, engine_url, request_id, timestamp) ==
    IF engine_url \notin DOMAIN history THEN history
    ELSE LET e == history[engine_url]
             next ==
                 IF e.stage = 0 /\ kind = "on_new_request"
                 THEN [e EXCEPT !.stage = 1, !.r = request_id, !.t0 = timestamp]
                 ELSE IF e.stage = 1 /\ kind = "on_request_response"
                         /\ request_id = e.r
                 THEN [e EXCEPT !.stage = 2, !.t1 = timestamp]
                 ELSE IF e.stage = 2 /\ kind = "on_request_complete"
                         /\ request_id = e.r
                 THEN [e EXCEPT !.stage = 3, !.t2 = timestamp]
                 ELSE [e EXCEPT !.stage = -1, !.r = NoRequestId,
                                !.t0 = None_time, !.t1 = None_time,
                                !.t2 = None_time]
         IN  [history EXCEPT
                ![engine_url] =
                    [next EXCEPT !.new_calls =
                        IF kind = "on_new_request" THEN Append(@, timestamp) ELSE @]]

\* ------------------------------------------------------- request handler
\* The snapshots get_endpoint_info may return: any list of distinct engines,
\* the empty one included.
Snapshots ==
    {[k \in 1..Len(s) |-> EndpointInfo(s[k])] : s \in DistinctSeqs(EngineUrls, 0)}

\* list(filter(pred, endpoints)), for the predicate "url in keep".
RECURSIVE Filter(_, _)
Filter(endpoints, keep) ==
    IF endpoints = <<>> THEN <<>>
    ELSE IF Head(endpoints).url \in keep
         THEN <<Head(endpoints)>> \o Filter(Tail(endpoints), keep)
         ELSE Filter(Tail(endpoints), keep)

\* The requested model after alias resolution (request.py:219-221).
ResolveAlias(requested_model) ==
    IF requested_model \in DOMAIN aliases THEN aliases[requested_model]
    ELSE requested_model

\* A filter that keeps every endpoint, whatever model it serves.
ServingEndpointsAny(endpoints, requested_model) == endpoints

\* The endpoints of a snapshot that serve a model (request.py:226).
ServingEndpoints(endpoints, requested_model) ==
    Filter(endpoints,
           {endpoints[k].url : k \in {j \in 1..Len(endpoints) :
                                        requested_model \in endpoints[j].model_names}})

\* A handler coroutine before its request has arrived.
IdleHandler ==
    [pc |-> "idle", request_id |-> NoRequestId, server_url |-> None_url,
     first_token |-> FALSE, status |-> 0, x_request_id |-> NoRequestId,
     events |-> <<>>, routed |-> FALSE, contacted |-> {},
     start_time |-> None_time, first_byte_time |-> None_time,
     ttft |-> None_time]

\* A response returned before any backend is chosen.
Respond(hd, pc, status, x_request_id) ==
    [hd EXCEPT !.pc = pc, !.status = status, !.x_request_id = x_request_id]

\* The monitor's counters, per url.
Counters(m) ==
    [in_prefill_requests |-> m.in_prefill_requests,
     in_decoding_requests |-> m.in_decoding_requests,
     finished_requests |-> m.finished_requests,
     swapped_requests |-> m.swapped_requests]

\* ----------------------------------------------------------------- threads
\* The event-loop thread is inside no call of the monitor.
NoMonitorCall == [kind |-> "none", engine_url |-> None_url, request_id |-> NoRequestId]

\* The monitor after a call of one of its methods has run to its end.
ApplyCall(m, call, timestamp) ==
    CASE call.kind = "on_new_request" ->
             on_new_request(m, call.engine_url, call.request_id, timestamp)
      [] call.kind = "on_request_response" ->
             on_request_response(m, call.engine_url, call.request_id, timestamp)
      [] call.kind = "on_request_complete" ->
             on_request_complete(m, call.engine_url, call.request_id, timestamp)
      [] call.kind = "get_request_stats" -> get_request_stats_state(m, timestamp)
      [] OTHER -> m

\* The positional arguments main would give log_stats to bind app to the
\* FastAPI application.
log_stats_args_with_app == <<"app", "log_stats_interval">>

\* The positional arguments main gives log_stats:
\* threading.Thread(target=log_stats, args=(args.log_stats_interval,)).
log_stats_args == <<"log_stats_interval">>

\* log_stats(app, interval=10), one statement at a time: where the thread is
\* after the statement at pc. Its parameter app is bound to the first
\* positional argument; app.state raises AttributeError unless that is the
\* application, and the exception ends the thread.
log_stats(args, pc) ==
    LET app == args[1]
    IN  CASE pc = "sleep" -> "get_endpoint_info"
          [] pc = "get_endpoint_info" ->
                 IF app = "app" THEN "get_engine_stats" ELSE "raised"
          [] pc = "get_engine_stats" -> "get_request_stats"
          [] pc = "get_request_stats" -> "log"
          [] pc = "log" -> "sleep"
          [] OTHER -> pc

\* ------------------------------------------------------ EngineStatsScraper
\* The values an EngineStats scraped from an engine is told apart by.
EngineStatsValues == 1..NumStats

\* EngineStatsScraper.__init__, and nobody calling get_engine_stats. pc is
\* the worker's position; collected, old_urls and pending the locals of
\* _scrape_metrics; succeeded the urls whose scrape succeeded in the round;
\* committed the map as the last completed round left it; read what the
\* latest get_engine_stats returned and the committed map at that moment.
NewScraper ==
    [running |-> TRUE,
     pc |-> "sleep", endpoints |-> <<>>, collected |-> EmptyMap,
     old_urls |-> {}, pending |-> {}, engine_stats |-> EmptyMap,
     engine_stats_lock |-> "free", reader |-> "idle",
     succeeded |-> {}, round_done |-> FALSE, committed |-> EmptyMap,
     read |-> [taken |-> FALSE, map |-> EmptyMap, committed |-> EmptyMap]]

\* A thread that takes the lock whether it is held or not.
LockIgnored(s) == TRUE

\* with self.engine_stats_lock: the lock can be taken when nobody holds it.
LockFree(s) == s.engine_stats_lock = "free"

\* del d[key]
Del(d, key) == [x \in DOMAIN d \ {key} |-> d[x]]

\* ----------------------------------------------------- K8sServiceDiscovery
\* pod.metadata.name of the pods the watch reports.
PodNames == 1..NumPods

\* pod.status.pod_ip when the pod has none.
NoIp == None_url

\* What _get_model_names can return: the ids the pod lists at /v1/models,
\* or the empty list when the request fails.
K8sModelNames == {<<>>, <<"m1">>, <<"m2">>}

\* No watch event has been handled.
NoEvent ==
    [event |-> "none", engine_name |-> 0, engine_ip |-> NoIp,
     is_pod_ready |-> FALSE, model_names |-> <<>>, known |-> FALSE]

\* What is remembered of a pod's registrations: stage 0 before the first,
\* 1 once registered, 2 once deleted after that, 3 once registered again;
\* old_timestamp the added_timestamp the endpoint had when it was deleted;
\* add_time the time of the latest ADDED event that registered it.
NoReAdd == [name \in PodNames |-> [stage |-> 0, old_timestamp |-> None_time,
                                    add_time |-> None_time]]

\* No pod has an endpoint in the registry.
NoFirstSeen == [name \in PodNames |-> None_time]

\* The time each pod's endpoint entered the registry, for the pods that
\* have had one without a break since: kept for a pod registered before and
\* after a step, now for one the step registered, none for the others.
FirstSeen(first_seen, before, after, timestamp) ==
    [name \in PodNames |->
        IF name \notin DOMAIN after THEN None_time
        ELSE IF name \in DOMAIN before THEN first_seen[name]
        ELSE timestamp]

\* The IP and the model list of a ready pod of the cluster.
PodIp(name) == ((name - 1) % NumEngines) + 1

PodModels(name) == <<"m1">>

\* K8sServiceDiscovery.__init__: no engine, the watcher thread started. pc
\* is the watcher's position in _watch_engines; last_event the event it
\* handled last and whether the pod was registered before it; interrupted
\* how the latest stream ended ("no", "error", "timeout"), and kept the endpoints registered
\* at the latest such moment whose pods had no event since. cluster is the
\* set of ready pods the namespace holds, replay those of them the open
\* stream has still to report as ADDED, first_seen the time each registered
\* pod's endpoint entered the registry.
NewK8s ==
    [running |-> TRUE, pc |-> "while", available_engines |-> EmptyMap,
     last_event |-> NoEvent, interrupted |-> "no", kept |-> EmptyMap,
     readd |-> NoReAdd, cluster |-> {}, replay |-> {},
     first_seen |-> NoFirstSeen]

\* An _add_engine that stamps the endpoint with the time the registry was
\* constructed.
_add_engine_stamped_at_start(available_engines, engine_name, engine_ip, pod_model_names, timestamp) ==
    Put(available_engines, engine_name,
        [url |-> engine_ip, model_names |-> pod_model_names,
         added_timestamp |-> 0, pod_name |-> engine_name])

\* _add_engine: the EndpointInfo stored under the pod's name; timestamp is
\* int(time.time()) at the call.
_add_engine(available_engines, engine_name, engine_ip, pod_model_names, timestamp) ==
    Put(available_engines, engine_name,
        [url |-> engine_ip, model_names |-> pod_model_names,
         added_timestamp |-> timestamp, pod_name |-> engine_name])

\* _delete_engine
_delete_engine(available_engines, engine_name) ==
    Del(available_engines, engine_name)

\* _on_engine_update: the registry after the event, handled at time timestamp.
_on_engine_update(available_engines, engine_name, engine_ip, event, is_pod_ready, pod_model_names, timestamp) ==
    CASE event = "ADDED" ->
           IF engine_ip = NoIp THEN available_engines
           ELSE IF ~is_pod_ready THEN available_engines
           ELSE IF pod_model_names = <<>> THEN available_engines
           ELSE _add_engine(available_engines, engine_name, engine_ip,
                            pod_model_names, timestamp)
      [] event = "DELETED" ->
           IF engine_name \notin DOMAIN available_engines
           THEN available_engines
           ELSE _delete_engine(available_engines, engine_name)
      [] event = "MODIFIED" ->
           IF engine_ip = NoIp THEN available_engines
           ELSE IF is_pod_ready /\ pod_model_names # <<>>
           THEN _add_engine(available_engines, engine_name, engine_ip,
                            pod_model_names, timestamp)
           ELSE IF (~is_pod_ready \/ pod_model_names = <<>>)
                   /\ engine_name \in DOMAIN available_engines
           THEN _delete_engine(available_engines, engine_name)
           ELSE available_engines

\* An except block that would drop the registry.
ExceptClearing(available_engines) == EmptyMap

\* The except block of _watch_engines: it logs the error and sleeps; the
\* registry is what it was.
ExceptException(available_engines) == available_engines

\* K8sServiceDiscovery.get_endpoint_info: the values of the registry.
k8s_get_endpoint_info(available_engines) ==
    {available_engines[name] : name \in DOMAIN available_engines}

\* --------------------------------------------------- StaticServiceDiscovery
\* Python's None for an optional list, told apart from every list of labels
\* or types.
NoList == <<"None">>

\* Backend urls and model names, as strings of characters: "u" stands for a
\* url such as http://h.io:80 and "u0" for http://h.io:800; "m" and "0m" are
\* model names.
StaticUrls == {<<"u">>, <<"u", "0">>, <<"v">>}
StaticModels == {<<"m">>, <<"0", "m">>}

\* All lists over S of at most n elements.
ListsUpTo(S, n) == UNION {[1..k -> S] : k \in 0..n}

\* The arguments StaticServiceDiscovery may be constructed with.
StaticConfigs ==
    [urls : ListsUpTo(StaticUrls, MaxBackends),
     models : ListsUpTo(StaticModels, MaxBackends),
     model_labels : {NoList} \cup ListsUpTo({"label"}, MaxBackends),
     model_types : {NoList} \cup ListsUpTo({"chat"}, MaxBackends),
     static_backend_health_checks : BOOLEAN]

\* No StaticServiceDiscovery exists. constructed is "no", "yes" or, after
\* __init__ raised, "AssertionError"; worker is the health-check thread
\* ("none" or "running"); closed whether close() has been called; round the
\* pairs the latest completed health-check round probed unhealthy.
NoStatic ==
    [constructed |-> "no", urls |-> <<>>, models |-> <<>>,
     model_labels |-> NoList, model_types |-> NoList,
     unhealthy_endpoint_hashes |-> {}, worker |-> "none", closed |-> FALSE,
     round |-> [completed |-> FALSE, unhealthy |-> {}]]

\* StaticServiceDiscovery.__init__
StaticInit(config) ==
    IF Len(config.urls) # Len(config.models)
    THEN [NoStatic EXCEPT !.constructed = "AssertionError"]
    ELSE [NoStatic EXCEPT
            !.constructed = "yes",
            !.urls = config.urls,
            !.models = config.models,
            !.model_labels = config.model_labels,
            !.model_types = config.model_types,
            !.worker = IF config.static_backend_health_checks
                       THEN "running" ELSE "none"]

\* The pair itself, by which the findings of a health-check round are
\* remembered.
PairHash(url, model) == <<url, model>>

\* get_model_endpoint_hash: the md5 digest of the string f"{url}{model}",
\* held here as that string (md5 is one-to-one on the few strings used).
get_model_endpoint_hash(url, model) == url \o model

\* min(len(a), len(b), ...), the length zip() stops at.
MinLen(lens) == CHOOSE n \in lens : \A k \in lens : n <= k

\* get_unhealthy_endpoint_hashes: the hashes of the pairs probed unhealthy,
\* the probes' outcomes being is_healthy[i].
get_unhealthy_endpoint_hashes(sd, is_healthy) ==
    {get_model_endpoint_hash(sd.urls[i], sd.models[i]) :
        i \in {j \in 1..MinLen({Len(sd.urls), Len(sd.models), Len(sd.model_types)}) :
                  ~is_healthy[j]}}

\* The elements get_endpoint_info goes through before it returns or raises:
\* the indexes of the pairs whose hash is not in unhealthy_endpoint_hashes.
StaticListed(sd) ==
    {i \in 1..MinLen({Len(sd.urls), Len(sd.models)}) :
        get_model_endpoint_hash(sd.urls[i], sd.models[i])
            \notin sd.unhealthy_endpoint_hashes}

\* The subsequence of 1..n whose members are in S, in order.
RECURSIVE IndexesIn(_, _)
IndexesIn(S, n) ==
    IF n = 0 THEN <<>>
    ELSE IF n \in S THEN Append(IndexesIn(S, n - 1), n)
    ELSE IndexesIn(S, n - 1)

\* StaticServiceDiscovery.get_endpoint_info: the list returned, or raised
\* when self.model_labels[i] is out of range (IndexError).
static_get_endpoint_info(sd) ==
    LET listed == IndexesIn(StaticListed(sd), Len(sd.urls))
        labelled == sd.model_labels # NoList /\ sd.model_labels # <<>>
    IN  IF labelled /\ \E k \in 1..Len(listed) : listed[k] > Len(sd.model_labels)
        THEN [raised |-> TRUE, endpoints |-> <<>>]
        ELSE [raised |-> FALSE,
              endpoints |->
                [k \in 1..Len(listed) |->
                   [url |-> sd.urls[listed[k]],
                    model_names |-> <<sd.models[listed[k]]>>,
                    model_label |-> IF labelled THEN sd.model_labels[listed[k]]
                                    ELSE "default"]]]

\* ---------------------------------------------------------- SingletonMeta
\* The argument of a construction without sliding_window_size.
NoWindowSize == 0

\* The values of sliding_window_size constructions are made with.
WindowSizes == 1..NumWindowSizes

\* No instance: what _instances.get(RequestStatsMonitor) is before one is
\* registered.
NoInstance == [id |-> 0, sliding_window_size |-> NoWindowSize, recorded |-> 0]

\* No construction has been made.
NoConstruction ==
    [outcome |-> "none", arg |-> NoWindowSize, returned |-> 0,
     before |-> NoInstance]

\* SingletonMeta._instances without RequestStatsMonitor, nothing constructed.
\* instance is _instances[RequestStatsMonitor] and its state: recorded
\* counts the events recorded in it; objects counts the objects created;
\* last is the latest construction, its outcome and _instances before it.
NoSingleton ==
    [instance |-> NoInstance, objects |-> 0, last |-> NoConstruction]

\* RequestStatsMonitor.__init__ on object self (NoInstance when the object
\* is new): the object after it, or raised.
RequestStatsMonitorInit(self, id, arg) ==
    IF self.id # 0 THEN [raised |-> FALSE, self |-> self]
    ELSE IF arg = NoWindowSize THEN [raised |-> TRUE, self |-> NoInstance]
    ELSE [raised |-> FALSE,
          self |-> [id |-> id, sliding_window_size |-> arg, recorded |-> 0]]

\* A __call__ that creates and initializes an object on every construction.
SingletonCallAlwaysNew(sg, arg) ==
    LET made == RequestStatsMonitorInit(NoInstance, sg.objects + 1, arg)
    IN  IF made.raised
        THEN [sg EXCEPT !.objects = @ + 1,
                        !.last = [outcome |-> "ValueError", arg |-> arg,
                                  returned |-> 0, before |-> sg.instance]]
        ELSE [sg EXCEPT !.objects = @ + 1,
                        !.instance = made.self,
                        !.last = [outcome |-> "instance", arg |-> arg,
                                  returned |-> made.self.id,
                                  before |-> sg.instance]]

\* SingletonMeta.__call__ for RequestStatsMonitor(arg): a class that is not
\* in _instances has an object created and initialized, and registered if
\* __init__ returns; the registered instance is returned.
SingletonCall(sg, arg) ==
    IF sg.instance.id = 0
    THEN LET made == RequestStatsMonitorInit(NoInstance, sg.objects + 1, arg)
         IN  IF made.raised
             THEN [sg EXCEPT !.objects = @ + 1,
                             !.last = [outcome |-> "ValueError", arg |-> arg,
                                       returned |-> 0, before |-> sg.instance]]
             ELSE [sg EXCEPT !.objects = @ + 1,
                             !.instance = made.self,
                             !.last = [outcome |-> "instance", arg |-> arg,
                                       returned |-> made.self.id,
                                       before |-> sg.instance]]
    ELSE [sg EXCEPT !.last = [outcome |-> "instance", arg |-> arg,
                              returned |-> sg.instance.id,
                              before |-> sg.instance]]

\* ------------------------------------------- the global service discovery
\* Python's None for _global_service_discovery; instances are numbered
\* from 1 in the order of their construction.
NoServiceDiscovery == 0

ServiceDiscoveryTypes == {"static", "k8s"}

\* The module before initialize_service_discovery: no instance, the global
\* None. pc is the position of the thread inside
\* reconfigure_service_discovery and created the instance it has built;
\* initialized tells that initialize_service_discovery has succeeded; last
\* is the outcome of the latest reconfigure call and got that of the
\* latest get_service_discovery call.
NoDiscovery ==
    [global |-> NoServiceDiscovery, objects |-> <<>>, pc |-> "idle",
     created |-> NoServiceDiscovery, initialized |-> FALSE,
     last |-> [outcome |-> "none", old |-> NoServiceDiscovery,
               new |-> NoServiceDiscovery],
     got |-> [called |-> FALSE, raised |-> FALSE, ret |-> NoServiceDiscovery,
              initialized |-> FALSE]]

\* _create_service_discovery: the constructor of the type is run; it raises
\* (ok false) or returns a new instance, not closed.
_create_service_discovery(objects, service_discovery_type, ok) ==
    IF ok
    THEN [raised |-> FALSE,
          objects |-> Append(objects, [type |-> service_discovery_type,
                                       closed |-> FALSE]),
          id |-> Len(objects) + 1]
    ELSE [raised |-> TRUE, objects |-> objects, id |-> NoServiceDiscovery]

\* initialize_service_discovery
initialize_service_discovery(d, service_discovery_type, ok) ==
    IF d.global # NoServiceDiscovery THEN d
    ELSE LET c == _create_service_discovery(d.objects, service_discovery_type, ok)
         IN  IF c.raised THEN d
             ELSE [d EXCEPT !.objects = c.objects, !.global = c.id,
                            !.initialized = TRUE]

\* get_service_discovery: raises ValueError when the global is None.
get_service_discovery(d) ==
    IF d.global = NoServiceDiscovery
    THEN [called |-> TRUE, raised |-> TRUE, ret |-> NoServiceDiscovery,
          initialized |-> d.initialized]
    ELSE [called |-> TRUE, raised |-> FALSE, ret |-> d.global,
          initialized |-> d.initialized]

\* ------------------------------------------------------ LocalBatchProcessor
NoBatchId == 0

\* The processor after initialize(): an empty batch_queue table, the
\* process_batches task at its SELECT, nobody in cancel_batch. status maps
\* the batch ids of the table to their status column; stored_cancelled is
\* the set of batches for which cancel_batch has stored "cancelled".
NoBatch ==
    [status |-> EmptyMap,
     worker |-> [pc |-> "select", batch_id |-> NoBatchId, new_status |-> "none"],
     cancel |-> [pc |-> "idle", batch_id |-> NoBatchId, status |-> "none"],
     stored_cancelled |-> {}]

\* No request has just arrived.
NoArrival ==
    [h |-> 0, header |-> NoRequestId, body_model |-> InvalidJson,
     snapshot |-> <<>>,
     counters |-> Counters(NewMonitor), req_id |-> 0,
     key_to_server_id |-> EmptyMap]

\* ------------------------------------------------------------------ state
VARIABLES
    req_id,             \* RoundRobinRouter.req_id
    key_to_server_id,   \* SessionRouter.key_to_server_id
    stats_arg,          \* the request_stats snapshot the next route_request call is given
    last,               \* the latest route_request call: arguments, result, state before
    rr_run,             \* the current run of round-robin calls over one endpoint set
    sess_ret,           \* per session id, the url the latest call with it returned
    monitor,            \* the RequestStatsMonitor singleton
    now,                \* time.time()
    mon_calls,          \* number of direct calls made into the monitor
    mon_history,        \* what those calls were, per url
    routing_logic,      \* the policy of app.state.router: "roundrobin" or "session"
    handlers,           \* per request: the position and locals of its handler
    threads,            \* the event-loop thread and the log-stats thread: what each
                        \* is executing
    scraper,            \* the EngineStatsScraper singleton, its worker thread and
                        \* a thread calling get_engine_stats
    k8s,                \* the K8sServiceDiscovery instance and its watcher thread
    static_sd,          \* the StaticServiceDiscovery instance and its health-check
                        \* worker
    singleton,          \* SingletonMeta._instances for RequestStatsMonitor and
                        \* the outcome of the latest construction
    discovery,          \* _global_service_discovery, the instances constructed,
                        \* and the thread inside reconfigure_service_discovery
    batch,              \* the batch_queue table of LocalBatchProcessor, its
                        \* process_batches task and a cancel_batch call
    arrival             \* the request route_general_request has just taken: its
                        \* headers, body and snapshot, and the counters and router state
                        \* it found; NoArrival after any other step

vars == <<req_id, key_to_server_id, stats_arg, last, rr_run, sess_ret,
          monitor, now, mon_calls, mon_history, routing_logic, handlers, arrival,
          threads, scraper, k8s, static_sd, singleton, discovery, batch>>

handlerVars == <<routing_logic, handlers, arrival>>

monitorVars == <<monitor, now, mon_calls, mon_history>>

routerVars == <<req_id, key_to_server_id, stats_arg, last, rr_run, sess_ret>>

\* The state of the threads beside the event loop's handlers.
otherVars == <<threads, scraper, k8s, static_sd, singleton, discovery, batch>>

NoCall ==
    [kind |-> "none", endpoints |-> <<>>, session_id |-> NoHeader,
     request_stats |-> EmptyMap, ret |-> None_url, req_id |-> None_url,
     table |-> EmptyMap, prev |-> None_url,
     after |-> [endpoints |-> <<>>, engine_stats |-> EmptyMap,
                request_stats |-> EmptyMap]]

\* Fresh routers: RoundRobinRouter.__init__ and SessionRouter.__init__.
InitRouters ==
    /\ req_id = 0
    /\ key_to_server_id = EmptyMap
    /\ last = NoCall
    /\ rr_run = [set |-> {}, rets |-> <<>>]
    /\ sess_ret = [s \in SessionIds |-> None_url]

InitMonitor ==
    /\ monitor = NewMonitor
    /\ now = 0
    /\ mon_calls = 0
    /\ mon_history = NoHistory

\* main without --log-stats: no log-stats thread is started.
InitOther ==
    /\ threads = [loop |-> NoMonitorCall, log |-> "off"]
    /\ scraper = NewScraper
    /\ k8s = NewK8s
    /\ static_sd = NoStatic
    /\ singleton = NoSingleton
    /\ discovery = NoDiscovery
    /\ batch = NoBatch

InitHandlers ==
    /\ handlers = [h \in Handlers |-> IdleHandler]
    /\ arrival = NoArrival

Init ==
    /\ InitRouters
    /\ stats_arg = EmptyMap
    /\ InitMonitor
    /\ routing_logic = "roundrobin"
    /\ InitHandlers
    /\ InitOther

\* The application after initialize_all, with either routing policy.
InitApp ==
    /\ InitRouters
    /\ stats_arg = EmptyMap
    /\ InitMonitor
    /\ routing_logic \in {"roundrobin", "session"}
    /\ InitHandlers
    /\ InitOther

\* The same, with any request_stats snapshot for the calls to come.
InitQps ==
    /\ InitRouters
    /\ stats_arg \in RequestStatsMaps
    /\ InitMonitor
    /\ routing_logic = "session"
    /\ InitHandlers
    /\ InitOther

\* ---------------------------------------------------------------- actions
\* One RoundRobinRouter.route_request call.
RoundRobinCall ==
    /\ req_id < MaxCalls
    /\ \E endpoints \in EndpointLists :
         LET r == RoundRobinRoute(endpoints, req_id)
         IN  /\ req_id' = r.req_id
             /\ last' = [NoCall EXCEPT !.kind = "rr", !.endpoints = endpoints,
                                       !.request_stats = stats_arg,
                                       !.ret = r.ret, !.req_id = req_id,
                                       !.after =
                                           [endpoints |-> r.endpoints,
                                            engine_stats |-> scraper.engine_stats,
                                            request_stats |-> stats_arg]]
             /\ rr_run' = IF UrlsOf(endpoints) = rr_run.set
                          THEN [rr_run EXCEPT !.rets = Append(@, r.ret)]
                          ELSE [set |-> UrlsOf(endpoints), rets |-> <<r.ret>>]
    /\ UNCHANGED <<key_to_server_id, stats_arg, sess_ret>>
    /\ UNCHANGED otherVars
    /\ UNCHANGED monitorVars
    /\ UNCHANGED handlerVars

\* One SessionRouter.route_request call; session_id is the value of the session
\* header, NoHeader when the request has none.
SessionCall(session_id) ==
    /\ \E endpoints \in EndpointLists :
         LET r == SessionRoute(endpoints, stats_arg, session_id, key_to_server_id)
         IN  /\ key_to_server_id' = r.table
             /\ last' = [NoCall EXCEPT !.kind = "session", !.endpoints = endpoints,
                                       !.session_id = session_id,
                                       !.request_stats = stats_arg, !.ret = r.ret,
                                       !.table = key_to_server_id,
                                       !.prev = IF session_id = NoHeader THEN None_url
                                                ELSE sess_ret[session_id],
                                       !.after =
                                           [endpoints |-> r.endpoints,
                                            engine_stats |-> scraper.engine_stats,
                                            request_stats |-> r.request_stats]]
             /\ sess_ret' = IF session_id = NoHeader THEN sess_ret
                            ELSE [sess_ret EXCEPT ![session_id] = r.ret]
    /\ UNCHANGED <<req_id, stats_arg, rr_run>>
    /\ UNCHANGED otherVars
    /\ UNCHANGED monitorVars
    /\ UNCHANGED handlerVars

SessionCallWithId == \E session_id \in SessionIds : SessionCall(session_id)

SessionCallNoId == SessionCall(NoHeader)

\* time.time() moves on.
Tick ==
    /\ now < MaxTime
    /\ now' = now + 1
    /\ arrival' = NoArrival
    /\ UNCHANGED <<monitor, mon_calls, mon_history, routing_logic, handlers>>
    /\ UNCHANGED otherVars
    /\ UNCHANGED routerVars

\* A direct call into the monitor, for any url and request id, known or not.
MonitorCall(m, kind, engine_url, request_id) ==
    /\ mon_calls < MaxEvents
    /\ monitor' = m
    /\ mon_calls' = mon_calls + 1
    /\ mon_history' = Record(mon_history, kind, engine_url, request_id, now)
    /\ UNCHANGED otherVars
    /\ UNCHANGED now
    /\ UNCHANGED routerVars
    /\ UNCHANGED handlerVars

CallNewRequest ==
    \E u \in EngineUrls, r \in MonitorIds :
        MonitorCall(on_new_request(monitor, u, r, now), "on_new_request", u, r)

CallRequestResponse ==
    \E u \in EngineUrls, r \in MonitorIds :
        MonitorCall(on_request_response(monitor, u, r, now),
                    "on_request_response", u, r)

CallRequestComplete ==
    \E u \in EngineUrls, r \in MonitorIds :
        MonitorCall(on_request_complete(monitor, u, r, now),
                    "on_request_complete", u, r)

CallRequestSwapped ==
    \E u \in EngineUrls, r \in MonitorIds :
        MonitorCall(on_request_swapped(monitor, u, r, now),
                    "on_request_swapped", u, r)

CallGetRequestStats ==
    MonitorCall(get_request_stats_state(monitor, now), "get_request_stats",
                None_url, NoRequestId)

NextMonitor ==
    \/ Tick
    \/ CallNewRequest
    \/ CallRequestResponse
    \/ CallRequestComplete
    \/ CallRequestSwapped
    \/ CallGetRequestStats

SpecMonitor == Init /\ [][NextMonitor]_vars

\* --------------------------------------------------------- thread actions
\* main with or without --log-stats: the log-stats thread is started asleep.
InitThreads ==
    /\ InitRouters
    /\ stats_arg = EmptyMap
    /\ InitMonitor
    /\ routing_logic = "roundrobin"
    /\ InitHandlers
    /\ threads \in {[loop |-> NoMonitorCall, log |-> pc] : pc \in {"off", "sleep"}}
    /\ scraper = NewScraper
    /\ k8s = NewK8s
    /\ static_sd = NoStatic
    /\ singleton = NoSingleton
    /\ discovery = NoDiscovery
    /\ batch = NoBatch

\* A coroutine on the event loop (a request handler, or /metrics) enters a
\* method of the monitor.
LoopEntersMonitor ==
    /\ threads.loop = NoMonitorCall
    /\ mon_calls < MaxEvents
    /\ \E kind \in {"on_new_request", "on_request_response", "on_request_complete",
                     "get_request_stats"},
          u \in EngineUrls, r \in MonitorIds :
            threads' = [threads EXCEPT
                          !.loop = IF kind = "get_request_stats"
                                   THEN [NoMonitorCall EXCEPT !.kind = kind]
                                   ELSE [kind |-> kind, engine_url |-> u,
                                         request_id |-> r]]
    /\ UNCHANGED <<monitor, now, mon_calls, mon_history>>
    /\ UNCHANGED <<scraper, k8s, static_sd, singleton, discovery, batch>>
    /\ UNCHANGED routerVars
    /\ UNCHANGED handlerVars

\* The method returns.
LoopLeavesMonitor ==
    /\ threads.loop # NoMonitorCall
    /\ monitor' = ApplyCall(monitor, threads.loop, now)
    /\ mon_calls' = mon_calls + 1
    /\ threads' = [threads EXCEPT !.loop = NoMonitorCall]
    /\ UNCHANGED <<now, mon_history, scraper, k8s, static_sd, singleton>>
    /\ UNCHANGED <<discovery, batch>>
    /\ UNCHANGED routerVars
    /\ UNCHANGED handlerVars

\* The log-stats thread executes its next statement; leaving
\* get_request_stats it has evicted the windows.
LogStatsStep ==
    /\ threads.log \notin {"off", "raised"}
    /\ threads' = [threads EXCEPT !.log = log_stats(log_stats_args, @)]
    /\ monitor' = IF threads.log = "get_request_stats"
                  THEN get_request_stats_state(monitor, now) ELSE monitor
    /\ UNCHANGED <<now, mon_calls, mon_history, scraper, k8s, static_sd, singleton>>
    /\ UNCHANGED <<discovery, batch>>
    /\ UNCHANGED routerVars
    /\ UNCHANGED handlerVars

NextThreads ==
    \/ LoopEntersMonitor
    \/ LoopLeavesMonitor
    \/ LogStatsStep

SpecThreads == InitThreads /\ [][NextThreads]_vars

\* -------------------------------------------------------- scraper actions
ScraperStep(sc) ==
    /\ scraper' = sc
    /\ UNCHANGED <<threads, k8s, static_sd, singleton, discovery, batch>>
    /\ UNCHANGED routerVars
    /\ UNCHANGED monitorVars
    /\ UNCHANGED handlerVars

\* _scrape_worker finds self.running set and _scrape_metrics takes the
\* registry's snapshot.
ScrapeRoundStarts ==
    /\ scraper.pc = "sleep"
    /\ scraper.running
    /\ \E snapshot \in Snapshots :
         ScraperStep([scraper EXCEPT
                        !.pc = "scrape",
                        !.endpoints = [k \in 1..Len(snapshot) |-> snapshot[k].url],
                        !.collected = EmptyMap,
                        !.succeeded = {},
                        !.round_done = FALSE])

\* _scrape_one_endpoint for the next url of the snapshot: it returns an
\* EngineStats, or None when the request or the parsing fails.
ScrapeOneEndpoint ==
    /\ scraper.pc = "scrape"
    /\ scraper.endpoints # <<>>
    /\ LET url == Head(scraper.endpoints)
       IN  \/ ScraperStep([scraper EXCEPT !.endpoints = Tail(@)])
           \/ \E engine_stats \in EngineStatsValues :
                ScraperStep([scraper EXCEPT
                               !.endpoints = Tail(@),
                               !.collected = Put(@, url, engine_stats),
                               !.succeeded = @ \cup {url}])

\* The worker enters "with self.engine_stats_lock" and lists the old urls.
WorkerAcquiresLock ==
    /\ scraper.pc = "scrape"
    /\ scraper.endpoints = <<>>
    /\ LockFree(scraper)
    /\ ScraperStep([scraper EXCEPT
                      !.pc = "delete",
                      !.engine_stats_lock = "worker",
                      !.old_urls = DOMAIN scraper.engine_stats])

\* One pass of "for old_url in old_urls", or the end of that loop.
WorkerDeletesOld ==
    /\ scraper.pc = "delete"
    /\ IF scraper.old_urls = {}
       THEN ScraperStep([scraper EXCEPT !.pc = "set",
                                        !.pending = DOMAIN scraper.collected])
       ELSE \E old_url \in scraper.old_urls :
              ScraperStep([scraper EXCEPT
                             !.old_urls = @ \ {old_url},
                             !.engine_stats =
                                 IF old_url \notin DOMAIN scraper.collected
                                 THEN Del(@, old_url) ELSE @])

\* One pass of "for url, stats in collected_engine_stats.items()", or the end
\* of that loop, which leaves the with block and ends the round.
WorkerSetsNew ==
    /\ scraper.pc = "set"
    /\ IF scraper.pending = {}
       THEN ScraperStep([scraper EXCEPT
                           !.pc = "sleep",
                           !.engine_stats_lock = "free",
                           !.round_done = TRUE,
                           !.committed = scraper.engine_stats])
       ELSE \E url \in scraper.pending :
              ScraperStep([scraper EXCEPT
                             !.pending = @ \ {url},
                             !.engine_stats = Put(@, url, scraper.collected[url])])

\* A thread calls get_engine_stats and enters "with self.engine_stats_lock".
ReaderAcquiresLock ==
    /\ scraper.reader = "idle"
    /\ LockFree(scraper)
    /\ ScraperStep([scraper EXCEPT
                      !.reader = "locked",
                      !.engine_stats_lock =
                          IF @ = "free" THEN "reader" ELSE @])

\* It copies the map, leaves the with block and returns the copy.
ReaderReturnsCopy ==
    /\ scraper.reader = "locked"
    /\ ScraperStep([scraper EXCEPT
                      !.reader = "idle",
                      !.engine_stats_lock = IF @ = "reader" THEN "free" ELSE @,
                      !.read = [taken |-> TRUE, map |-> scraper.engine_stats,
                                committed |-> scraper.committed]])

\* EngineStatsScraper.close clears the flag (and waits in join).
ScraperClose ==
    /\ scraper.running
    /\ ScraperStep([scraper EXCEPT !.running = FALSE])

\* _sleep_or_break breaks, "while self.running" fails and _scrape_worker
\* returns: the thread ends.
ScraperWorkerReturns ==
    /\ scraper.pc = "sleep"
    /\ ~scraper.running
    /\ ScraperStep([scraper EXCEPT !.pc = "returned"])

NextScraper ==
    \/ ScrapeRoundStarts
    \/ ScrapeOneEndpoint
    \/ WorkerAcquiresLock
    \/ WorkerDeletesOld
    \/ WorkerSetsNew
    \/ ReaderAcquiresLock
    \/ ReaderReturnsCopy

SpecScraper == Init /\ [][NextScraper]_vars

\* ----------------------------------------------------------------- /health
\* The cluster-watched registry when the router runs with static discovery:
\* there is none, and no watcher thread.
NoK8s == [NewK8s EXCEPT !.running = FALSE, !.pc = "none"]

\* get_service_discovery().get_health(): ServiceDiscovery.get_health for the
\* static registry, watcher_thread.is_alive() for the cluster-watched one.
service_discovery_get_health(sd, k) ==
    IF sd.constructed = "yes" THEN TRUE ELSE k.pc # "returned"

\* EngineStatsScraper.get_health: scrape_thread.is_alive()
scraper_get_health(sc) == sc.pc # "returned"

\* A /health that asks the registry only.
health_of_registry(sd, k, sc) ==
    IF ~service_discovery_get_health(sd, k) THEN 503 ELSE 200

\* health: the status code of the response.
health(sd, k, sc) ==
    IF ~service_discovery_get_health(sd, k) THEN 503
    ELSE IF ~scraper_get_health(sc) THEN 503
    ELSE 200

\* ------------------------------------------------------ singleton actions
SingletonStep(sg) ==
    /\ singleton' = sg
    /\ UNCHANGED <<threads, scraper, k8s, static_sd, discovery, batch>>
    /\ UNCHANGED routerVars
    /\ UNCHANGED monitorVars
    /\ UNCHANGED handlerVars

\* RequestStatsMonitor(...), with or without sliding_window_size.
SingletonConstruct ==
    /\ singleton.objects < MaxObjects
    /\ \E arg \in {NoWindowSize} \cup WindowSizes :
         SingletonStep(SingletonCall(singleton, arg))

\* The registered instance records an event (any on_* call).
SingletonRecords ==
    /\ singleton.instance.id # 0
    /\ singleton.instance.recorded < MaxEvents
    /\ SingletonStep([singleton EXCEPT !.instance.recorded = @ + 1,
                                       !.last = NoConstruction])

NextSingleton ==
    \/ SingletonConstruct
    \/ SingletonRecords

SpecSingleton == Init /\ [][NextSingleton]_vars

\* ------------------------------------------------ static registry actions
StaticStep(sd) ==
    /\ static_sd' = sd
    /\ UNCHANGED <<threads, scraper, k8s, singleton, discovery, batch>>
    /\ UNCHANGED routerVars
    /\ UNCHANGED monitorVars
    /\ UNCHANGED handlerVars

\* StaticServiceDiscovery(urls, models, aliases, model_labels, model_types,
\* static_backend_health_checks)
StaticConstruct ==
    /\ static_sd.constructed = "no"
    /\ \E config \in StaticConfigs : StaticStep(StaticInit(config))

\* One pass of the loop of check_model_health: a round of probes, then the
\* assignment of unhealthy_endpoint_hashes; or, when model_types is None,
\* zip() raises TypeError, which the except block logs.
HealthCheckRound ==
    /\ static_sd.constructed = "yes"
    /\ static_sd.worker = "running"
    /\ IF static_sd.model_types = NoList
       THEN StaticStep(static_sd)
       ELSE \E is_healthy \in [1..Len(static_sd.urls) -> BOOLEAN] :
              StaticStep([static_sd EXCEPT
                 !.unhealthy_endpoint_hashes =
                     get_unhealthy_endpoint_hashes(static_sd, is_healthy),
                 !.round =
                     [completed |-> TRUE,
                      unhealthy |->
                        {PairHash(static_sd.urls[i], static_sd.models[i]) :
                           i \in {j \in 1..MinLen({Len(static_sd.urls),
                                                   Len(static_sd.model_types)}) :
                                     ~is_healthy[j]}}]])

\* ServiceDiscovery.close, which StaticServiceDiscovery inherits: pass.
StaticClose ==
    /\ static_sd.constructed = "yes"
    /\ ~static_sd.closed
    /\ StaticStep([static_sd EXCEPT !.closed = TRUE])

NextStatic ==
    \/ StaticConstruct
    \/ HealthCheckRound
    \/ StaticClose

SpecStatic == Init /\ [][NextStatic]_vars

\* The health-check thread is scheduled: its loop goes on.
SpecStaticFair == SpecStatic /\ WF_vars(HealthCheckRound)

\* ------------------------------------------------------- watcher actions
K8sStep(k) ==
    /\ k8s' = [k EXCEPT !.first_seen = FirstSeen(@, k8s.available_engines,
                                                 k.available_engines, now)]
    /\ UNCHANGED <<threads, scraper, static_sd, singleton, discovery, batch>>
    /\ UNCHANGED routerVars
    /\ UNCHANGED monitorVars
    /\ UNCHANGED handlerVars

\* "while self.running" holds and the watcher opens the stream.
WatcherOpensStream ==
    /\ k8s.pc = "while"
    /\ k8s.running
    /\ K8sStep([k8s EXCEPT !.pc = "stream", !.replay = k8s.cluster])

\* "while self.running" fails and _watch_engines returns.
WatcherExits ==
    /\ k8s.pc = "while"
    /\ ~k8s.running
    /\ K8sStep([k8s EXCEPT !.pc = "returned"])

\* The stream yields an event: one pass of the for loop. The model names are
\* asked of the pod only when it is ready, and a pod without an IP answers
\* nothing.
WatchEvent ==
    /\ k8s.pc = "stream"
    /\ \E event \in {"ADDED", "MODIFIED", "DELETED"}, pod_name \in PodNames,
          pod_ip \in {NoIp} \cup EngineUrls, is_pod_ready \in BOOLEAN :
         \E pod_model_names \in IF is_pod_ready /\ pod_ip # NoIp
                            THEN K8sModelNames ELSE {<<>>} :
           K8sStep([k8s EXCEPT
                      !.available_engines =
                          _on_engine_update(@, pod_name, pod_ip, event,
                                            is_pod_ready, pod_model_names,
                                            now),
                      !.last_event =
                          [event |-> event, engine_name |-> pod_name,
                           engine_ip |-> pod_ip,
                           is_pod_ready |-> is_pod_ready,
                           model_names |-> pod_model_names,
                           known |-> pod_name \in DOMAIN k8s.available_engines],
                      !.kept = IF pod_name \in DOMAIN @
                               THEN Del(@, pod_name) ELSE @])

\* The stream raises: the except block runs and the watcher sleeps.
StreamError ==
    /\ k8s.pc = "stream"
    /\ K8sStep([k8s EXCEPT
                  !.pc = "sleep",
                  !.available_engines = ExceptException(@),
                  !.last_event = NoEvent,
                  !.interrupted = "error",
                  !.kept = k8s.available_engines])

\* The stream ends after timeout_seconds, or because close() stopped it:
\* the for loop is over.
StreamTimeout ==
    /\ k8s.pc = "stream"
    /\ K8sStep([k8s EXCEPT
                  !.pc = "while",
                  !.last_event = NoEvent,
                  !.interrupted = "timeout",
                  !.kept = k8s.available_engines])

\* time.sleep(0.5) of the except block is over.
WatcherWakes ==
    /\ k8s.pc = "sleep"
    /\ K8sStep([k8s EXCEPT !.pc = "while"])

\* close() on another thread.
K8sClose ==
    /\ k8s.running
    /\ K8sStep([k8s EXCEPT !.running = FALSE])

NextK8s ==
    \/ WatcherOpensStream
    \/ WatcherExits
    \/ WatchEvent
    \/ StreamError
    \/ StreamTimeout
    \/ WatcherWakes
    \/ K8sClose

SpecK8s == Init /\ [][NextK8s]_vars

\* An ADDED or DELETED event for a ready pod that has an IP and lists models,
\* handled at the current time; what is remembered of the pod's
\* registrations is brought up to date.
ReAddEvent ==
    /\ k8s.pc = "stream"
    /\ \E event \in {"ADDED", "DELETED"}, pod_name \in PodNames,
          pod_ip \in EngineUrls, pod_model_names \in K8sModelNames \ {<<>>} :
         LET before == k8s.available_engines
             after == _on_engine_update(before, pod_name, pod_ip, event, TRUE,
                                        pod_model_names, now)
             was == pod_name \in DOMAIN before
             is == pod_name \in DOMAIN after
             old == k8s.readd[pod_name]
         IN  K8sStep([k8s EXCEPT
                        !.available_engines = after,
                        !.readd[pod_name] =
                            [stage |-> IF ~was /\ is
                                       THEN (IF old.stage = 0 THEN 1 ELSE 3)
                                       ELSE IF was /\ ~is THEN 2
                                       ELSE old.stage,
                             old_timestamp |->
                                 IF was /\ ~is
                                 THEN before[pod_name].added_timestamp
                                 ELSE old.old_timestamp,
                             add_time |-> IF event = "ADDED" THEN now
                                          ELSE old.add_time]])

NextK8sClock ==
    \/ WatcherOpensStream
    \/ ReAddEvent
    \/ Tick

SpecK8sClock == Init /\ [][NextK8sClock]_vars

\* The router after initialize_all with either kind of service discovery:
\* a cluster-watched registry, or a static one with any configuration it
\* accepts.
InitHealth ==
    /\ InitRouters
    /\ stats_arg = EmptyMap
    /\ InitMonitor
    /\ routing_logic = "roundrobin"
    /\ InitHandlers
    /\ threads = [loop |-> NoMonitorCall, log |-> "off"]
    /\ scraper = NewScraper
    /\ singleton = NoSingleton
    /\ discovery = NoDiscovery
    /\ batch = NoBatch
    /\ \/ static_sd = NoStatic /\ k8s = NewK8s
       \/ /\ k8s = NoK8s
          /\ \E config \in StaticConfigs :
                /\ Len(config.urls) = Len(config.models)
                /\ static_sd = StaticInit(config)

\* The lives of the background workers: they run, close() is called on the
\* registry and on the scraper, the workers return.
NextHealth ==
    \/ WatcherOpensStream
    \/ StreamError
    \/ StreamTimeout
    \/ WatcherWakes
    \/ WatcherExits
    \/ K8sClose
    \/ StaticClose
    \/ ScraperClose
    \/ ScraperWorkerReturns

SpecHealth == InitHealth /\ [][NextHealth]_vars

\* The watcher thread is scheduled: it wakes from its sleep and goes round
\* its loop.
SpecK8sFair ==
    /\ SpecK8s
    /\ WF_vars(WatcherWakes)
    /\ WF_vars(WatcherOpensStream)

\* ---------------------------------------------- the watcher and a cluster
\* The stream, opened without a resource version, first reports every pod
\* the namespace holds as ADDED: one of them is reported.
ReplayAdded ==
    /\ k8s.pc = "stream"
    /\ \E name \in k8s.replay :
         K8sStep([k8s EXCEPT
                    !.available_engines =
                        _on_engine_update(@, name, PodIp(name), "ADDED", TRUE,
                                          PodModels(name), now),
                    !.replay = @ \ {name}])

\* A pod the stream has reported changes while it stays ready: MODIFIED.
PodModified ==
    /\ k8s.pc = "stream"
    /\ \E name \in k8s.cluster \ k8s.replay :
         K8sStep([k8s EXCEPT
                    !.available_engines =
                        _on_engine_update(@, name, PodIp(name), "MODIFIED", TRUE,
                                          PodModels(name), now)])

\* A pod becomes ready in the namespace. An open stream reports it; with no
\* stream open nothing is reported until the next one replays it.
ClusterAddsPod ==
    \E name \in PodNames \ k8s.cluster :
        K8sStep([k8s EXCEPT
                   !.cluster = @ \cup {name},
                   !.available_engines =
                       IF k8s.pc = "stream"
                       THEN _on_engine_update(@, name, PodIp(name), "ADDED", TRUE,
                                              PodModels(name), now)
                       ELSE @])

\* A pod is deleted from the namespace. An open stream reports DELETED;
\* with no stream open the deletion is reported to nobody, and the next
\* stream replays the pods that exist.
ClusterDeletesPod ==
    \E name \in k8s.cluster :
        K8sStep([k8s EXCEPT
                   !.cluster = @ \ {name},
                   !.replay = @ \ {name},
                   !.available_engines =
                       IF k8s.pc = "stream"
                       THEN _on_engine_update(@, name, PodIp(name), "DELETED",
                                              FALSE, <<>>, now)
                       ELSE @])

NextK8sCluster ==
    \/ WatcherOpensStream
    \/ ReplayAdded
    \/ PodModified
    \/ ClusterAddsPod
    \/ ClusterDeletesPod
    \/ StreamError
    \/ StreamTimeout
    \/ WatcherWakes
    \/ Tick

SpecK8sCluster == Init /\ [][NextK8sCluster]_vars

\* The watcher thread is scheduled, the stream delivers what it has to
\* replay and ends after timeout_seconds.
SpecK8sClusterFair ==
    /\ SpecK8sCluster
    /\ WF_vars(WatcherWakes)
    /\ WF_vars(WatcherOpensStream)
    /\ WF_vars(ReplayAdded)
    /\ WF_vars(StreamTimeout)

\* --------------------------------------------------------- handler actions
\* route_general_request, from the arrival of the request to its first wait on
\* the network: the body is parsed and validated, the snapshot filtered, the
\* stats read, the router asked, and process_request run up to the opening of
\* the backend connection (on_new_request included). No callbacks module and no
\* request rewriter is configured; the routers read no engine_stats.
RouteGeneralRequest(h, header, body_model, request_endpoint, session_id, snapshot) ==
    /\ handlers[h].pc = "idle"
    \* requests are numbered in the order of their arrival
    /\ \A g \in 1..(h - 1) : handlers[g].pc # "idle"
    /\ LET request_id == IF header # NoRequestId THEN header ELSE uuid4(h)
           hd == [handlers[h] EXCEPT !.request_id = request_id]
           requested_model == ResolveAlias(body_model)
           serving == ServingEndpoints(snapshot, requested_model)
           \* request.py:226-230 reads the stats only without an id parameter
           mon1 == IF request_endpoint = NoEndpointId
                   THEN get_request_stats_state(monitor, now) ELSE monitor
           request_stats == get_request_stats(monitor, now)
           routed == IF routing_logic = "roundrobin"
                     THEN LET r == RoundRobinRoute(serving, req_id)
                          IN  [ret |-> r.ret, req_id |-> r.req_id,
                               table |-> key_to_server_id]
                     ELSE LET r == SessionRoute(serving, request_stats, session_id,
                                                key_to_server_id)
                          IN  [ret |-> r.ret, req_id |-> req_id, table |-> r.table]
       IN  IF body_model = InvalidJson
           THEN \* request.json() raises: an unhandled error
                /\ handlers' = [handlers EXCEPT
                                  ![h] = Respond(hd, "error", 500, NoRequestId)]
                /\ UNCHANGED <<monitor, req_id, key_to_server_id>>
           ELSE IF body_model = NoModel
           THEN /\ handlers' = [handlers EXCEPT
                                  ![h] = Respond(hd, "rejected", 400, request_id)]
                /\ UNCHANGED <<monitor, req_id, key_to_server_id>>
           ELSE IF request_endpoint # NoEndpointId /\ serving # <<>>
           THEN \* x.Id: EndpointInfo has no attribute Id
                /\ handlers' = [handlers EXCEPT
                                  ![h] = Respond(hd, "error", 500, NoRequestId)]
                /\ UNCHANGED <<monitor, req_id, key_to_server_id>>
           ELSE IF serving = <<>>
           THEN /\ handlers' = [handlers EXCEPT
                                  ![h] = Respond(hd, "rejected", 400, NoRequestId)]
                /\ monitor' = mon1
                /\ UNCHANGED <<req_id, key_to_server_id>>
           ELSE /\ handlers' = [handlers EXCEPT
                                  ![h] = [hd EXCEPT
                                            !.pc = "connecting",
                                            !.server_url = routed.ret,
                                            !.routed = TRUE,
                                            !.events = <<"on_new_request", "open">>,
                                            !.contacted = {routed.ret},
                                            !.start_time = now]]
                /\ monitor' = on_new_request(mon1, routed.ret, request_id, now)
                /\ req_id' = routed.req_id
                /\ key_to_server_id' = routed.table
    /\ arrival' = [h |-> h, header |-> header, body_model |-> body_model,
                   snapshot |-> snapshot,
                   counters |-> Counters(monitor), req_id |-> req_id,
                   key_to_server_id |-> key_to_server_id]
    /\ UNCHANGED <<now, mon_calls, mon_history, routing_logic, stats_arg, last,
                   rr_run, sess_ret>>
    /\ UNCHANGED otherVars

\* A request arrives, with any headers and body, while the registry holds any
\* snapshot. What the handler never reads is not varied: nothing but the
\* X-Request-Id header of a request whose body is rejected before the
\* snapshot is taken, and no session header under the round-robin policy.
RequestArrives(h) ==
    /\ handlers[h].pc = "idle"
    /\ \E header \in RequestIds \cup {NoRequestId},
          body_model \in RequestedModels \cup {InvalidJson} :
      \E request_endpoint \in IF body_model \in {InvalidJson, NoModel}
                               THEN {NoEndpointId}
                               ELSE EndpointIds \cup {NoEndpointId},
         session_id \in IF body_model \in {InvalidJson, NoModel}
                            \/ routing_logic = "roundrobin"
                         THEN {NoHeader}
                         ELSE SessionIds \cup {NoHeader},
         snapshot \in IF body_model \in {InvalidJson, NoModel}
                       THEN {<<>>}
                       ELSE Snapshots :
        RouteGeneralRequest(h, header, body_model, request_endpoint, session_id,
                            snapshot)

\* A step of handler h after routing that leaves the routers and the clock alone.
HandlerStep(h, hd, m) ==
    /\ handlers' = [handlers EXCEPT ![h] = hd]
    /\ monitor' = m
    /\ arrival' = NoArrival
    /\ UNCHANGED <<now, mon_calls, mon_history, routing_logic>>
    /\ UNCHANGED otherVars
    /\ UNCHANGED routerVars

\* The backend answers with its status line and headers, 2xx or 5xx alike:
\* process_request yields them and route_general_request returns the
\* StreamingResponse, X-Request-Id set.
BackendResponds(h) ==
    /\ handlers[h].pc = "connecting"
    /\ \E status \in {200, 500} :
         HandlerStep(h, [handlers[h] EXCEPT !.pc = "streaming", !.status = status,
                                            !.x_request_id = handlers[h].request_id],
                     monitor)

\* The connection to the backend fails: stream() raises inside process_request
\* and the exception leaves route_general_request.
BackendConnectFails(h) ==
    /\ handlers[h].pc = "connecting"
    /\ HandlerStep(h, [handlers[h] EXCEPT !.pc = "connect_failed", !.status = 500],
                   monitor)

\* A handler that fires on_request_response for every chunk.
BackendChunkEvery(h) ==
    /\ handlers[h].pc = "streaming"
    /\ HandlerStep(h, [handlers[h] EXCEPT
                         !.first_token = TRUE,
                         !.first_byte_time = now,
                         !.ttft = ttft_sample(monitor, handlers[h].server_url,
                                              handlers[h].request_id, now),
                         !.events = Append(@, "on_request_response")],
                   on_request_response(monitor, handlers[h].server_url,
                                       handlers[h].request_id, now))

\* A chunk of the body arrives and is passed on; the first one fires
\* on_request_response.
BackendChunk(h) ==
    /\ handlers[h].pc = "streaming"
    /\ IF ~handlers[h].first_token
       THEN HandlerStep(h, [handlers[h] EXCEPT
                              !.first_token = TRUE,
                              !.first_byte_time = now,
                              !.ttft = ttft_sample(monitor, handlers[h].server_url,
                                                   handlers[h].request_id, now),
                              !.events = Append(@, "on_request_response")],
                        on_request_response(monitor, handlers[h].server_url,
                                            handlers[h].request_id, now))
       ELSE HandlerStep(h, handlers[h], monitor)

\* The backend ends the body: the stream is left and on_request_complete fires.
BackendStreamEnds(h) ==
    /\ handlers[h].pc = "streaming"
    /\ HandlerStep(h, [handlers[h] EXCEPT
                         !.pc = "done",
                         !.events = Append(@, "on_request_complete")],
                   on_request_complete(monitor, handlers[h].server_url,
                                       handlers[h].request_id, now))

\* The backend connection breaks in the middle of the body: aiter_bytes raises
\* and the exception leaves the generator.
BackendStreamAborts(h) ==
    /\ handlers[h].pc = "streaming"
    /\ HandlerStep(h, [handlers[h] EXCEPT !.pc = "aborted"], monitor)

\* The client goes away while the body is streamed: the generator is cancelled
\* or closed where it waits.
ClientDisconnects(h) ==
    /\ handlers[h].pc = "streaming"
    /\ HandlerStep(h, [handlers[h] EXCEPT !.pc = "disconnected"], monitor)

Next ==
    \/ Tick
    \/ \E h \in Handlers : RequestArrives(h)
    \/ \E h \in Handlers : BackendResponds(h)
    \/ \E h \in Handlers : BackendConnectFails(h)
    \/ \E h \in Handlers : BackendChunk(h)
    \/ \E h \in Handlers : BackendStreamEnds(h)
    \/ \E h \in Handlers : BackendStreamAborts(h)
    \/ \E h \in Handlers : ClientDisconnects(h)

Spec == InitApp /\ [][Next]_vars

NextRR == RoundRobinCall

NextSession == SessionCallWithId \/ SessionCallNoId

NextQps == SessionCallNoId

SpecRR == Init /\ [][NextRR]_vars

SpecSession == Init /\ [][NextSession]_vars

SpecQps == InitQps /\ [][NextQps]_vars

\* Routers of both policies that are given a request_stats entry for every
\* url.
InitRouterCalls ==
    /\ InitRouters
    /\ stats_arg = [u \in Urls |-> [qps |-> MaxQps]]
    /\ InitMonitor
    /\ routing_logic = "session"
    /\ InitHandlers
    /\ InitOther

\* Calls of both policies.
NextRouters == RoundRobinCall \/ SessionCallWithId \/ SessionCallNoId

SpecRouters == InitRouterCalls /\ [][NextRouters]_vars

\* ------------------------------------------------------- routing claims
LastIsSession == last.kind = "session"

LastHasId == LastIsSession /\ last.session_id # NoHeader

LastLen == Len(last.endpoints)

\* The url at index SHA-256(sid) mod n of a list.
HashedUrl(endpoints, session_id) ==
    endpoints[(Sha256Int(session_id) % Len(endpoints)) + 1].url

\* C4: every url a route_request call returns is the url of an element of the
\* endpoints list given to that call.
C4_ReturnedUrlIsGiven ==
    last.kind # "none" => last.ret \in UrlsOf(last.endpoints)

\* C5: when the session id is mapped to a url that is no longer in the given
\* list, the call returns the url the id hashes to in the current list and the
\* session table maps the id to the url returned.
C5_RemovedEndpointRehashed ==
    (/\ LastHasId
     /\ last.session_id \in DOMAIN last.table
     /\ last.table[last.session_id] \notin UrlsOf(last.endpoints))
    => /\ last.ret \in {HashedUrl(last.endpoints, last.session_id),
                        HashedUrl(SortedByUrl(last.endpoints), last.session_id)}
       /\ key_to_server_id[last.session_id] = last.ret

\* C6: a session id that an earlier call routed to url u is routed to u again
\* by every later call whose endpoints list contains u.
C6_SessionSticky ==
    (/\ LastHasId
     /\ last.prev # None_url
     /\ last.prev \in UrlsOf(last.endpoints))
    => last.ret = last.prev

\* A call with a mapped session id whose url is still listed, over a list in
\* which the id would now hash to another url.
C6_Witness ==
    /\ LastHasId
    /\ last.prev # None_url
    /\ last.prev \in UrlsOf(last.endpoints)
    /\ LastLen = NumUrls
    /\ HashedUrl(last.endpoints, last.session_id) # last.prev
    /\ last.ret = last.prev

\* C7: for an unmapped session id the url chosen is the element at index
\* SHA-256(sid) mod n of the endpoints sorted by url, whatever the list order.
C7_HashOverSortedEndpoints ==
    (LastHasId /\ last.session_id \notin DOMAIN last.table)
    => last.ret = HashedUrl(SortedByUrl(last.endpoints), last.session_id)

\* C8: a round-robin call with counter i returns the url at index i mod n of
\* the endpoints sorted by url and adds one to the counter; over a fixed set of
\* n endpoints any n consecutive calls return every endpoint once; a fresh
\* router over two urls a < b returns a, b, a.
C8_RoundRobin ==
    /\ last.kind = "rr" =>
          /\ last.ret = SortedByUrl(last.endpoints)[(last.req_id % LastLen) + 1].url
          /\ req_id = last.req_id + 1
    /\ LET n == Cardinality(rr_run.set)
           rets == rr_run.rets
       IN  /\ \A k \in 1..(Len(rets) - n + 1) :
                 {rets[j] : j \in k..(k + n - 1)} = rr_run.set
           /\ \A a, b \in Urls :
                 (a < b /\ rr_run.set = {a, b} /\ req_id = Len(rets) /\ Len(rets) >= 3)
                 => SubSeq(rets, 1, 3) = <<a, b, a>>

\* Three calls of a fresh router over two urls, the last with the list given
\* in descending order.
C8_Witness ==
    /\ last.kind = "rr"
    /\ req_id = 3
    /\ Cardinality(rr_run.set) = 2
    /\ Len(rr_run.rets) = 3
    /\ last.endpoints[1].url > last.endpoints[2].url

\* qps of an endpoint, a missing stats entry counting as 0.
QpsOrZero(request_stats, u) ==
    IF u \in DOMAIN request_stats THEN request_stats[u].qps ELSE 0

LastNoId == LastIsSession /\ last.session_id = NoHeader

\* C9 as stated: without a session header the url returned is that of the first
\* endpoint in iteration order among those of minimal qps, a missing stats
\* entry counting as qps 0.
C9_FirstOfMinimalQps ==
    LastNoId =>
      \E k \in 1..LastLen :
         /\ last.ret = last.endpoints[k].url
         /\ \A j \in 1..LastLen :
               /\ QpsOrZero(last.request_stats, last.endpoints[k].url)
                     <= QpsOrZero(last.request_stats, last.endpoints[j].url)
               /\ (j < k =>
                     QpsOrZero(last.request_stats, last.endpoints[k].url)
                        < QpsOrZero(last.request_stats, last.endpoints[j].url))

\* C9 amended: without a session header the url returned is that of the first
\* endpoint in iteration order that has no stats entry, if there is one, and
\* otherwise that of the first endpoint in iteration order among those of
\* minimal qps.
C9_FirstWithoutStatsElseMinimalQps ==
    LastNoId =>
      LET missing == {k \in 1..LastLen :
                         last.endpoints[k].url \notin DOMAIN last.request_stats}
          qps(k) == last.request_stats[last.endpoints[k].url].qps
      IN  IF missing # {}
          THEN \E k \in missing :
                  /\ last.ret = last.endpoints[k].url
                  /\ \A j \in missing : k <= j
          ELSE \E k \in 1..LastLen :
                  /\ last.ret = last.endpoints[k].url
                  /\ \A j \in 1..LastLen : qps(k) <= qps(j)
                  /\ \A j \in 1..(k - 1) : qps(k) < qps(j)

\* A call without session header where the first endpoint has a stats entry of
\* qps 0 and the second, which has no entry, is returned.
C9_Witness ==
    /\ LastNoId
    /\ LastLen >= 2
    /\ last.endpoints[1].url \in DOMAIN last.request_stats
    /\ last.request_stats[last.endpoints[1].url].qps = 0
    /\ last.endpoints[2].url \notin DOMAIN last.request_stats
    /\ last.ret = last.endpoints[2].url

\* ------------------------------------------------------- monitor claims
\* C3: after any sequence of on_new_request, on_request_response,
\* on_request_complete and on_request_swapped calls, in any order and for
\* known or unknown (url, request id) pairs, in_prefill_requests[url] and
\* in_decoding_requests[url] are at least 0 for every url.
C3_CountersNonNegative ==
    /\ \A u \in DOMAIN monitor.in_prefill_requests :
          monitor.in_prefill_requests[u] >= 0
    /\ \A u \in DOMAIN monitor.in_decoding_requests :
          monitor.in_decoding_requests[u] >= 0

\* The clamps have acted: at time 0 (nothing evicted yet) one url has had a
\* single on_new_request and two on_request_response, and another url has had
\* an on_request_complete without ever being known.
C3_Witness ==
    /\ now = 0
    /\ \E u \in DOMAIN monitor.qps_monitors :
          /\ Len(monitor.qps_monitors[u].values) = 1
          /\ monitor.in_prefill_requests[u] = 0
          /\ Get(monitor.in_decoding_requests, u, 0) = 2
    /\ \E u \in DOMAIN monitor.finished_requests :
          /\ u \notin DOMAIN monitor.in_prefill_requests
          /\ monitor.in_decoding_requests[u] = 0

\* C13: for a url whose only calls are on_new_request(u, r, t0),
\* on_request_response(u, r, t1) and on_request_complete(u, r, t2), in this
\* order: in_prefill[u] is 1 after the first; in_prefill[u] is 0 and
\* in_decoding[u] is 1 after the second; in_prefill[u] = 0, in_decoding[u] = 0
\* and finished[u] = 1 after the third, and get_request_stats reports
\* ttft = t1 - t0 while t1 is inside the window.
C13_Lifecycle ==
    \A u \in EngineUrls :
        LET e == mon_history[u]
            c == Counters(monitor)
        IN  /\ e.stage = 1 =>
                  /\ c.in_prefill_requests[u] = 1
                  /\ Get(c.in_decoding_requests, u, 0) = 0
                  /\ Get(c.finished_requests, u, 0) = 0
            /\ e.stage = 2 =>
                  /\ c.in_prefill_requests[u] = 0
                  /\ c.in_decoding_requests[u] = 1
                  /\ Get(c.finished_requests, u, 0) = 0
            /\ e.stage = 3 =>
                  /\ c.in_prefill_requests[u] = 0
                  /\ c.in_decoding_requests[u] = 0
                  /\ c.finished_requests[u] = 1
                  /\ now - e.t1 <= sliding_window_size =>
                        get_request_stats(monitor, now)[u].ttft
                            = [num |-> e.t1 - e.t0, den |-> 1]

\* A request has gone through its three events, the first token later than
\* the arrival and still inside the window.
C13_Witness ==
    \E u \in EngineUrls :
        /\ mon_history[u].stage = 3
        /\ mon_history[u].t1 > mon_history[u].t0
        /\ now - mon_history[u].t1 <= sliding_window_size
        /\ now > mon_history[u].t1

\* The number of on_new_request calls for url u whose timestamp lies in
\* [current_time - sliding_window_size, current_time].
ArrivalsInWindow(u, current_time) ==
    Cardinality({k \in 1..Len(mon_history[u].new_calls) :
                    /\ mon_history[u].new_calls[k] >= current_time - sliding_window_size
                    /\ mon_history[u].new_calls[k] <= current_time})

WindowsOf(m) ==
    {m.qps_monitors[u] : u \in DOMAIN m.qps_monitors}
    \cup {m.ttft_monitors[u] : u \in DOMAIN m.ttft_monitors}
    \cup {m.latency_monitors[u] : u \in DOMAIN m.latency_monitors}
    \cup {m.decoding_length_monitors[u] : u \in DOMAIN m.decoding_length_monitors}

\* Window w holds an entry older than sliding_window_size at current_time.
HasStale(w, current_time) ==
    \E k \in 1..Len(w.timestamps) :
        current_time - w.timestamps[k] > sliding_window_size

\* C15: immediately after get_request_stats(now) returns, every entry left in
\* every sliding window of the monitor, of every kind and url, has a timestamp
\* ts with now - ts <= W.
C15_NoStaleEntryAfterStats ==
    \A w \in WindowsOf(get_request_stats_state(monitor, now)) : ~HasStale(w, now)

\* Before the call a qps window and a ttft window each hold a stale entry.
C15_Witness ==
    /\ \E u \in DOMAIN monitor.qps_monitors : HasStale(monitor.qps_monitors[u], now)
    /\ \E u \in DOMAIN monitor.ttft_monitors : HasStale(monitor.ttft_monitors[u], now)

\* Window w1 is window w with some of its oldest entries removed, all of them
\* stale at current_time.
IsEvictionOf(w1, w, current_time) ==
    \E n \in 0..Len(w.timestamps) :
        /\ w1.timestamps = SubSeq(w.timestamps, n + 1, Len(w.timestamps))
        /\ w1.values = SubSeq(w.values, n + 1, Len(w.values))
        /\ \A k \in 1..n : w.timestamps[k] < current_time - sliding_window_size

\* C16: get_request_stats(t) called twice in a row with the same t returns
\* equal results and the second call changes no state of the monitor; the
\* first call changes nothing except that it evicts stale window entries.
C16_StatsIdempotent ==
    LET m1 == get_request_stats_state(monitor, now)
        m2 == get_request_stats_state(m1, now)
    IN  /\ get_request_stats(m1, now) = get_request_stats(monitor, now)
        /\ m2 = m1
        /\ [m1 EXCEPT !.qps_monitors = monitor.qps_monitors,
                       !.ttft_monitors = monitor.ttft_monitors] = monitor
        /\ DOMAIN m1.qps_monitors = DOMAIN monitor.qps_monitors
        /\ DOMAIN m1.ttft_monitors = DOMAIN monitor.ttft_monitors
        /\ \A u \in DOMAIN monitor.qps_monitors :
              IsEvictionOf(m1.qps_monitors[u], monitor.qps_monitors[u], now)
        /\ \A u \in DOMAIN monitor.ttft_monitors :
              IsEvictionOf(m1.ttft_monitors[u], monitor.ttft_monitors[u], now)

\* The first call evicts an entry and leaves another in its window.
C16_Witness ==
    \E u \in DOMAIN monitor.qps_monitors :
        LET w1 == get_request_stats_state(monitor, now).qps_monitors[u]
        IN  /\ w1 # monitor.qps_monitors[u]
            /\ w1.timestamps # <<>>

Fired(h, event) == \E k \in 1..Len(handlers[h].events) : handlers[h].events[k] = event

\* C1: a request for which the handler fired on_new_request has
\* on_request_complete fired as well by the time its handler has ended, also
\* when the backend connection failed, the backend answered 5xx or the
\* backend stream aborted in the middle of the body. (A handler that has
\* ended takes no further step, so what it has not fired it never fires.)
C1_CompleteAlwaysFired ==
    \A h \in Handlers :
        (/\ handlers[h].pc \in {"done", "connect_failed", "aborted"}
         /\ Fired(h, "on_new_request"))
        => Fired(h, "on_request_complete")

\* C2: a request whose client disconnected while it was in prefill or in
\* decoding has on_request_complete fired by its handler.
C2_CompleteFiredOnDisconnect ==
    \A h \in Handlers :
        handlers[h].pc = "disconnected" => Fired(h, "on_request_complete")

\* The request has no model field, or no endpoint of the snapshot serves the
\* requested model after alias resolution.
ModelMissingOrNotServed(body_model, snapshot) ==
    \/ body_model = NoModel
    \/ /\ body_model # InvalidJson
       /\ \A k \in 1..Len(snapshot) :
             ResolveAlias(body_model) \notin snapshot[k].model_names

\* C10: a request without a model field, or for a model no endpoint of the
\* snapshot serves after alias resolution, is answered 400 with no router
\* invoked, no backend contacted and no on_new_request, on_request_response or
\* on_request_complete fired, and the monitor's counters are unchanged.
C10_RejectedWithoutEffect ==
    (/\ arrival.h # 0
     /\ ModelMissingOrNotServed(arrival.body_model, arrival.snapshot))
    => /\ handlers[arrival.h].pc = "rejected"
       /\ handlers[arrival.h].status = 400
       /\ ~handlers[arrival.h].routed
       /\ handlers[arrival.h].contacted = {}
       /\ handlers[arrival.h].events = <<>>
       /\ Counters(monitor) = arrival.counters
       /\ req_id = arrival.req_id
       /\ key_to_server_id = arrival.key_to_server_id

\* A request for a model that none of the endpoints of a non-empty snapshot
\* serves has just been rejected, while an earlier request is being streamed
\* and counted by the monitor.
C10_Witness ==
    /\ arrival.h # 0
    /\ arrival.body_model # NoModel
    /\ arrival.snapshot # <<>>
    /\ ModelMissingOrNotServed(arrival.body_model, arrival.snapshot)
    /\ handlers[arrival.h].pc = "rejected"
    /\ \E g \in Handlers :
          /\ handlers[g].pc = "streaming"
          /\ handlers[g].first_token
          /\ arrival.counters.in_decoding_requests[handlers[g].server_url] = 1

\* C11: a request whose body cannot be parsed as JSON is answered 400, not
\* with an unhandled error, and fires no lifecycle event into the monitor.
C11_InvalidJsonRejected ==
    (arrival.h # 0 /\ arrival.body_model = InvalidJson)
    => /\ handlers[arrival.h].pc = "rejected"
       /\ handlers[arrival.h].status = 400
       /\ handlers[arrival.h].events = <<>>
       /\ Counters(monitor) = arrival.counters

\* The handler has produced a response: a 400 of its own or the backend's
\* status line and headers.
HasResponded(h) ==
    handlers[h].pc \in {"rejected", "streaming", "done", "aborted", "disconnected"}

\* C12: every response of the handler carries an X-Request-Id header: the
\* incoming X-Request-Id when the client sent one, a freshly generated id
\* otherwise. This covers the 400 for a missing model field, the 400 for a
\* model that is not found and the responses streamed from a backend.
C12_ResponseCarriesRequestId ==
    /\ \A h \in Handlers :
          HasResponded(h) =>
              /\ handlers[h].x_request_id # NoRequestId
              /\ handlers[h].x_request_id = handlers[h].request_id
    /\ (arrival.h # 0 /\ HasResponded(arrival.h)) =>
          IF arrival.header # NoRequestId
          THEN handlers[arrival.h].x_request_id = arrival.header
          ELSE handlers[arrival.h].x_request_id \notin RequestIds

\* C18: after each completed scrape round the key set of the scraper's map
\* is the set of urls whose scrape succeeded in that round, each with the
\* stats scraped; and a get_engine_stats concurrent with the worker returns
\* the map as a completed round left it (before or after the round under
\* way), never a map half updated.
C18_ScrapeRoundAtomic ==
    /\ (scraper.pc = "sleep" /\ scraper.round_done) =>
           /\ DOMAIN scraper.engine_stats = scraper.succeeded
           /\ scraper.engine_stats = scraper.collected
    /\ scraper.read.taken => scraper.read.map = scraper.read.committed

\* A round is complete in which an endpoint known before failed or left,
\* and a get_engine_stats that ran during the round returned the old map.
C18_Witness ==
    /\ scraper.pc = "sleep"
    /\ scraper.round_done
    /\ scraper.read.taken
    /\ scraper.read.map # scraper.engine_stats
    /\ \E url \in DOMAIN scraper.read.map : url \notin DOMAIN scraper.engine_stats
    /\ scraper.engine_stats # EmptyMap

\* The pod of the last watch event is registered with the data of that event.
RegisteredWithEventData ==
    /\ k8s.last_event.engine_name \in DOMAIN k8s.available_engines
    /\ k8s.available_engines[k8s.last_event.engine_name] =
           [url |-> k8s.last_event.engine_ip,
            model_names |-> k8s.last_event.model_names,
            added_timestamp |-> now,
            pod_name |-> k8s.last_event.engine_name]

\* C19: after a MODIFIED event for a pod that is not ready or has no model
\* list (a pod whose IP is no longer set included) the pod's endpoint is
\* absent from the registry, and after a MODIFIED event for a ready pod with
\* a non-empty model list it is present with the data of that event.
C19_ModifiedReconciles ==
    k8s.last_event.event = "MODIFIED" =>
        IF k8s.last_event.is_pod_ready /\ k8s.last_event.model_names # <<>>
        THEN RegisteredWithEventData
        ELSE k8s.last_event.engine_name \notin DOMAIN k8s.available_engines

\* Every endpoint registered when the stream was lost, whose pod had no
\* event since, is still returned by get_endpoint_info.
KeptStillReturned ==
    \A name \in DOMAIN k8s.kept :
        /\ name \in DOMAIN k8s.available_engines
        /\ k8s.available_engines[name] = k8s.kept[name]
        /\ k8s.kept[name] \in k8s_get_endpoint_info(k8s.available_engines)

\* The watcher is between two streams after one was lost.
StreamLost ==
    /\ k8s.interrupted # "no"
    /\ k8s.pc \in {"sleep", "while"}

\* C20: a watch-stream error or timeout leaves the endpoint map unchanged:
\* every endpoint known before it is still returned by get_endpoint_info
\* until a later event for that pod changes it; and while running, the
\* watcher reopens the stream afterwards.
C20_StreamLossKeepsEndpoints ==
    /\ [](KeptStillReturned)
    /\ (StreamLost /\ k8s.running) ~> (k8s.pc = "stream" \/ ~k8s.running)

\* After a stream error the watcher is streaming again, an endpoint known
\* before the error is still registered, and another pod has changed since.
C20_Witness ==
    /\ k8s.interrupted = "error"
    /\ k8s.pc = "stream"
    /\ k8s.running
    /\ k8s.kept # EmptyMap
    /\ k8s.last_event.event = "DELETED"
    /\ k8s.last_event.known

\* A list of endpoints in which no two elements have the same url.
UrlsUnique(endpoints) ==
    \A i, j \in 1..Len(endpoints) :
        endpoints[i].url = endpoints[j].url => i = j

\* C21: in every list get_endpoint_info returns, for the static registry
\* with any configuration it accepts, no two elements have the same url.
C21_SnapshotUrlsUnique ==
    (static_sd.constructed = "yes"
       /\ ~static_get_endpoint_info(static_sd).raised)
    => UrlsUnique(static_get_endpoint_info(static_sd).endpoints)

\* C22: after an engine is added, deleted and added again, the endpoint's
\* added_timestamp is the time of the second add, and not the value it had
\* before the delete (whenever the clock has moved in between).
C22_ReAddRestamps ==
    \A name \in PodNames :
        k8s.readd[name].stage = 3 =>
            /\ name \in DOMAIN k8s.available_engines
            /\ k8s.available_engines[name].added_timestamp
                   = k8s.readd[name].add_time
            /\ k8s.readd[name].add_time > k8s.readd[name].old_timestamp
                   => k8s.available_engines[name].added_timestamp
                          # k8s.readd[name].old_timestamp

\* An engine was added at one time, deleted, and added again at a later time.
C22_Witness ==
    \E name \in PodNames :
        /\ k8s.readd[name].stage = 3
        /\ k8s.readd[name].old_timestamp # None_time
        /\ k8s.readd[name].add_time > k8s.readd[name].old_timestamp
        /\ now = k8s.readd[name].add_time

\* The configured positions whose (url, model) pair the latest completed
\* health-check round did not find unhealthy, in order.
HealthyPositions ==
    IndexesIn({i \in 1..Len(static_sd.urls) :
                  PairHash(static_sd.urls[i], static_sd.models[i])
                      \notin static_sd.round.unhealthy},
              Len(static_sd.urls))

\* C23: get_endpoint_info of the static registry returns exactly the
\* configured (url, model) pairs that the most recently completed
\* health-check round did not find unhealthy: unhealthy pairs are absent,
\* healthy pairs are never hidden.
C23_SnapshotIsHealthyPairs ==
    (static_sd.constructed = "yes"
       /\ ~static_get_endpoint_info(static_sd).raised)
    => LET endpoints == static_get_endpoint_info(static_sd).endpoints
       IN  /\ Len(endpoints) = Len(HealthyPositions)
           /\ \A k \in 1..Len(endpoints) :
                 /\ endpoints[k].url = static_sd.urls[HealthyPositions[k]]
                 /\ endpoints[k].model_names
                        = <<static_sd.models[HealthyPositions[k]]>>

\* C24: a static registry exists only if its parallel arrays have one
\* length: urls against models, and model_labels and model_types when they
\* are given; a construction with different lengths fails.
C24_MismatchFailsConstruction ==
    static_sd.constructed = "yes" =>
        /\ Len(static_sd.urls) = Len(static_sd.models)
        /\ static_sd.model_labels # NoList
               => Len(static_sd.model_labels) = Len(static_sd.urls)
        /\ static_sd.model_types # NoList
               => Len(static_sd.model_types) = Len(static_sd.urls)

\* C25, for the static registry with health checks enabled: after close()
\* the health-check worker eventually stops running.
C25_CloseStopsWorker ==
    (static_sd.closed /\ static_sd.worker = "running")
        ~> (static_sd.worker # "running")

\* The registry's background worker is alive: the watcher thread, or the
\* static health-check worker when health checks are enabled (a registry
\* without a worker has none to lose).
RegistryWorkerAlive ==
    IF static_sd.constructed = "yes"
    THEN static_sd.worker \in {"none", "running"}
    ELSE k8s.pc \in {"while", "stream", "sleep"}

\* The scraper's worker thread is alive.
ScraperWorkerAlive == scraper.pc # "returned"

\* C26: /health returns 200 exactly when the registry's background worker
\* and the scraper's worker are both alive, and 503 when either has died.
C26_HealthIffWorkersAlive ==
    /\ health(static_sd, k8s, scraper) = 200
          <=> (RegistryWorkerAlive /\ ScraperWorkerAlive)
    /\ health(static_sd, k8s, scraper) \in {200, 503}

\* The watcher is alive and streaming, the scraper's worker has returned
\* after close(): /health answers 503.
C26_Witness ==
    /\ static_sd.constructed = "no"
    /\ k8s.pc = "stream"
    /\ scraper.pc = "returned"
    /\ health(static_sd, k8s, scraper) = 503

\* C27: RequestStatsMonitor is a singleton. A construction while none is
\* registered raises ValueError without sliding_window_size and leaves none
\* registered, and registers an instance of that window size with it; every
\* later construction, with or without arguments, returns the registered
\* instance, its recorded state and window size unchanged.
C27_Singleton ==
    LET call == singleton.last
    IN  call.outcome # "none" =>
          IF call.before.id = 0
          THEN IF call.arg = NoWindowSize
               THEN call.outcome = "ValueError" /\ singleton.instance = NoInstance
               ELSE /\ call.outcome = "instance"
                    /\ call.returned = singleton.instance.id
                    /\ singleton.instance.id # 0
                    /\ singleton.instance.sliding_window_size = call.arg
          ELSE /\ call.outcome = "instance"
               /\ call.returned = call.before.id
               /\ singleton.instance = call.before

\* A construction with another window size has just returned the instance
\* registered earlier, which has recorded events; before the first
\* registration a construction had raised.
C27_Witness ==
    /\ singleton.last.outcome = "instance"
    /\ singleton.last.before.id = 2
    /\ singleton.last.before.recorded > 0
    /\ singleton.last.arg \in WindowSizes
    /\ singleton.last.arg # singleton.instance.sliding_window_size

\* The lifecycle events handler h has fired into the monitor, in order.
LifecycleOf(h) ==
    SelectSeq(handlers[h].events,
              LAMBDA e : e \in {"on_new_request", "on_request_response",
                                 "on_request_complete"})

\* C28: a request for which the handler has fired on_request_complete has
\* had on_request_response fired earlier, also when the backend's body is
\* empty.
C28_ResponseBeforeComplete ==
    \A h \in Handlers :
        \A k \in 1..Len(LifecycleOf(h)) :
            LifecycleOf(h)[k] = "on_request_complete" =>
                \E j \in 1..(k - 1) : LifecycleOf(h)[j] = "on_request_response"

\* The orders in which a request's events reach the monitor: never
\* on_request_response before on_new_request or after on_request_complete,
\* and none of the three twice.
OrderedLifecycles ==
    {<<>>,
     <<"on_new_request">>,
     <<"on_new_request", "on_request_response">>,
     <<"on_new_request", "on_request_complete">>,
     <<"on_new_request", "on_request_response", "on_request_complete">>}

\* No two requests have sent their events to the monitor under the same
\* (url, rid).
KeysUnshared ==
    \A g, h \in Handlers :
        (/\ g # h
         /\ LifecycleOf(g) # <<>>
         /\ LifecycleOf(h) # <<>>)
        => <<handlers[g].server_url, handlers[g].request_id>>
               # <<handlers[h].server_url, handlers[h].request_id>>

C30_NoPendingAfterComplete ==
    \A u \in EngineUrls :
        mon_history[u].stage = 3 =>
            /\ <<u, mon_history[u].r>> \notin DOMAIN monitor.request_start_time
            /\ <<u, mon_history[u].r>> \notin DOMAIN monitor.first_token_time

\* Handler h is between its on_new_request and the end of its request: it
\* waits for the backend's headers or streams the body.
InFlight(h) == handlers[h].pc \in {"connecting", "streaming"}

\* C31: whenever no request is in flight, in_prefill_requests and
\* in_decoding_requests are 0 for every url, however the requests ended.
C31_CountersZeroWhenQuiet ==
    (\A h \in Handlers : ~InFlight(h)) =>
        /\ \A u \in DOMAIN monitor.in_prefill_requests :
               monitor.in_prefill_requests[u] = 0
        /\ \A u \in DOMAIN monitor.in_decoding_requests :
               monitor.in_decoding_requests[u] = 0

\* The requests that have fired on_new_request for url u.
RequestsOn(u) ==
    {h \in Handlers : LifecycleOf(h) # <<>> /\ handlers[h].server_url = u}

\* The urls requests have been routed to.
RoutedUrls == {handlers[h].server_url : h \in {g \in Handlers : LifecycleOf(g) # <<>>}}

\* The requests on u carry distinct ids and each has emitted new, response,
\* complete in that order, as far as it has come.
InOrderDistinct(u) ==
    /\ \A h \in RequestsOn(u) :
           LifecycleOf(h) \in
               {<<"on_new_request">>,
                <<"on_new_request", "on_request_response">>,
                <<"on_new_request", "on_request_response", "on_request_complete">>}
    /\ \A g, h \in RequestsOn(u) :
           g # h => handlers[g].request_id # handlers[h].request_id

\* C32: for requests with distinct ids on one url that emit new, response,
\* complete in that order, in any interleaving, in_prefill_requests[url] is
\* the number of requests that have emitted new but not response,
\* in_decoding_requests[url] the number that have emitted response but not
\* complete, and finished_requests[url] the number that have emitted complete.
C32_CountersCountRequests ==
    \A u \in RoutedUrls :
        InOrderDistinct(u) =>
            /\ Get(monitor.in_prefill_requests, u, 0) =
                   Cardinality({h \in RequestsOn(u) : Len(LifecycleOf(h)) = 1})
            /\ Get(monitor.in_decoding_requests, u, 0) =
                   Cardinality({h \in RequestsOn(u) : Len(LifecycleOf(h)) = 2})
            /\ Get(monitor.finished_requests, u, 0) =
                   Cardinality({h \in RequestsOn(u) : Len(LifecycleOf(h)) = 3})

\* Two requests with distinct ids are in flight on one url, the later one
\* past its first chunk and the earlier one not: one is counted in prefill
\* and one in decoding.
C32_Witness ==
    \E g, h \in Handlers :
        /\ g < h
        /\ handlers[g].server_url = handlers[h].server_url
        /\ InOrderDistinct(handlers[g].server_url)
        /\ InFlight(g)
        /\ InFlight(h)
        /\ Len(LifecycleOf(g)) = 1
        /\ Len(LifecycleOf(h)) = 2
        /\ monitor.in_prefill_requests[handlers[g].server_url] = 1
        /\ monitor.in_decoding_requests[handlers[g].server_url] = 1

\* C33: the TTFT sample recorded for a request is its own first-byte time
\* minus its own start time, also when another in-flight request on the
\* same backend carries the same X-Request-Id.
C33_TtftIsOwn ==
    \A h \in Handlers :
        handlers[h].first_token =>
            handlers[h].ttft = handlers[h].first_byte_time - handlers[h].start_time

\* The request that has just arrived passes validation: its body is JSON
\* with a model field and an endpoint of the snapshot serves the model.
PassesValidation ==
    /\ arrival.h # 0
    /\ arrival.body_model # InvalidJson
    /\ ~ModelMissingOrNotServed(arrival.body_model, arrival.snapshot)

\* How often handler h has produced event e.
Count(h, e) == Len(SelectSeq(handlers[h].events, LAMBDA x : x = e))

\* A routed request has fired on_new_request once, before opening its one
\* backend connection, and has contacted the routed url only, however it
\* ended.
NoRetry ==
    \A h \in Handlers :
        handlers[h].routed =>
            /\ Count(h, "on_new_request") = 1
            /\ Count(h, "open") = 1
            /\ handlers[h].events[1] = "on_new_request"
            /\ handlers[h].events[2] = "open"
            /\ handlers[h].contacted = {handlers[h].server_url}

\* C34: for every request that passes validation the handler fires
\* on_new_request exactly once, for the routed url and before the backend
\* connection is opened, and contacts that one backend only: no second
\* backend and no second on_new_request after a backend failure.
C34_OneRequestOneBackend ==
    /\ NoRetry
    /\ PassesValidation => handlers[arrival.h].routed

\* C35: after a request to a url has completed inside the window,
\* get_request_stats reports avg_latency for the url as the mean of
\* (complete time - start time), not the -1 sentinel.
C35_AvgLatencyIsMean ==
    \A u \in EngineUrls :
        (/\ mon_history[u].stage = 3
         /\ now - mon_history[u].t2 <= sliding_window_size)
        => LET request_stats == get_request_stats(monitor, now)
           IN  /\ u \in DOMAIN request_stats
               /\ request_stats[u].avg_latency =
                      [num |-> mon_history[u].t2 - mon_history[u].t0, den |-> 1]

\* C36: an endpoint whose pod was deleted while the stream was down (the
\* registry holds it, the cluster does not) is eventually removed from the
\* registry once the stream reconnects, unless the pod comes back.
C36_ReconnectReconciles ==
    \A name \in PodNames :
        (name \in DOMAIN k8s.available_engines /\ name \notin k8s.cluster)
            ~> (name \notin DOMAIN k8s.available_engines \/ name \in k8s.cluster)

\* C37: while a pod's endpoint stays in the registry its added_timestamp is
\* the time it entered: MODIFIED events for the still-ready pod and the
\* ADDED events replayed by a new stream do not change it.
C37_AddedTimestampIsFirstSeen ==
    \A name \in DOMAIN k8s.available_engines :
        k8s.available_engines[name].added_timestamp = k8s.first_seen[name]

\* C38: a SessionRouter.route_request call for a request without the
\* session header leaves the session table unchanged, and no route_request
\* call of either policy modifies the endpoints list, the engine_stats or
\* the request_stats it was given.
C38_RoutersLeaveInputs ==
    /\ (last.kind = "session" /\ last.session_id = NoHeader)
           => key_to_server_id = last.table
    /\ last.kind # "none" =>
           /\ last.after.endpoints = last.endpoints
           /\ last.after.request_stats = last.request_stats
           /\ last.after.engine_stats = scraper.engine_stats

\* A round-robin call was given an unsorted list, and a session call
\* without the header was made while the table held a session.
C38_Witness ==
    \/ /\ last.kind = "rr"
       /\ Len(last.endpoints) > 1
       /\ last.endpoints # SortedByUrl(last.endpoints)
       /\ key_to_server_id # EmptyMap
    \/ /\ last.kind = "session"
       /\ last.session_id = NoHeader
       /\ last.table # EmptyMap
       /\ last.request_stats # EmptyMap
       /\ req_id > 0

\* ------------------------------------------- service discovery life cycle
DiscoveryStep(d) ==
    /\ discovery' = d
    /\ UNCHANGED <<threads, scraper, k8s, static_sd, singleton, batch>>
    /\ UNCHANGED routerVars
    /\ UNCHANGED monitorVars
    /\ UNCHANGED handlerVars

\* initialize_all calls initialize_service_discovery; the constructor may
\* raise.
DiscoveryInitialize ==
    /\ discovery.global = NoServiceDiscovery
    /\ Len(discovery.objects) < MaxInstances
    /\ \E service_discovery_type \in ServiceDiscoveryTypes, ok \in BOOLEAN :
         DiscoveryStep(initialize_service_discovery(discovery,
                                                    service_discovery_type, ok))

\* A reconfigure_service_discovery that closes the active instance before
\* it constructs the new one.
ReconfigureClosesFirst ==
    /\ discovery.pc = "idle"
    /\ discovery.global # NoServiceDiscovery
    /\ Len(discovery.objects) < MaxInstances
    /\ \E service_discovery_type \in ServiceDiscoveryTypes, ok \in BOOLEAN :
         LET closed == [discovery.objects EXCEPT ![discovery.global].closed = TRUE]
             c == _create_service_discovery(closed, service_discovery_type, ok)
         IN  IF c.raised
             THEN DiscoveryStep([discovery EXCEPT
                    !.objects = closed,
                    !.last = [outcome |-> "failed", old |-> discovery.global,
                              new |-> NoServiceDiscovery]])
             ELSE DiscoveryStep([discovery EXCEPT
                    !.objects = c.objects, !.created = c.id, !.pc = "close",
                    !.last = [outcome |-> "running", old |-> discovery.global,
                              new |-> c.id]])

\* reconfigure_service_discovery, up to the construction of the new
\* instance: it raises and the call is over, or it returns and the call
\* goes on to close the active instance.
ReconfigureCreates ==
    /\ discovery.pc = "idle"
    /\ discovery.global # NoServiceDiscovery
    /\ Len(discovery.objects) < MaxInstances
    /\ \E service_discovery_type \in ServiceDiscoveryTypes, ok \in BOOLEAN :
         LET c == _create_service_discovery(discovery.objects,
                                            service_discovery_type, ok)
         IN  IF c.raised
             THEN DiscoveryStep([discovery EXCEPT
                    !.last = [outcome |-> "failed", old |-> discovery.global,
                              new |-> NoServiceDiscovery]])
             ELSE DiscoveryStep([discovery EXCEPT
                    !.objects = c.objects, !.created = c.id, !.pc = "close",
                    !.last = [outcome |-> "running", old |-> discovery.global,
                              new |-> c.id]])

\* _global_service_discovery.close() returns.
ReconfigureCloses ==
    /\ discovery.pc = "close"
    /\ DiscoveryStep([discovery EXCEPT
                        !.objects[discovery.global].closed = TRUE,
                        !.pc = "assign"])

\* _global_service_discovery = new_service_discovery, and the call returns.
ReconfigureAssigns ==
    /\ discovery.pc = "assign"
    /\ DiscoveryStep([discovery EXCEPT
                        !.global = discovery.created,
                        !.pc = "idle",
                        !.created = NoServiceDiscovery,
                        !.last.outcome = "reconfigured"])

\* A request handler on the event loop calls get_service_discovery.
GetServiceDiscovery ==
    DiscoveryStep([discovery EXCEPT !.got = get_service_discovery(discovery)])

NextDiscovery ==
    \/ DiscoveryInitialize
    \/ ReconfigureCreates
    \/ ReconfigureCloses
    \/ ReconfigureAssigns
    \/ GetServiceDiscovery

SpecDiscovery == Init /\ [][NextDiscovery]_vars

\* C39: a reconfigure_service_discovery call either succeeds, and then
\* get_service_discovery returns the new instance and the old one has been
\* closed, or fails constructing the new instance, and then the old
\* instance is still the active one and has not been closed; and once
\* initialization has succeeded get_service_discovery never fails.
C39_ReconfigureAllOrNothing ==
    /\ discovery.last.outcome = "reconfigured" =>
           /\ discovery.global = discovery.last.new
           /\ discovery.last.new # discovery.last.old
           /\ discovery.objects[discovery.last.old].closed
           /\ ~discovery.objects[discovery.last.new].closed
           /\ get_service_discovery(discovery).ret = discovery.last.new
    /\ discovery.last.outcome = "failed" =>
           /\ discovery.global = discovery.last.old
           /\ ~discovery.objects[discovery.last.old].closed
           /\ get_service_discovery(discovery).ret = discovery.last.old
    /\ discovery.initialized => ~get_service_discovery(discovery).raised
    /\ (discovery.got.called /\ discovery.got.initialized) => ~discovery.got.raised

\* A reconfigure call has failed after an earlier one had succeeded, and a
\* handler has been handed the instance that is still active.
C39_Witness ==
    /\ discovery.last.outcome = "failed"
    /\ Len(discovery.objects) >= 2
    /\ discovery.global = 2
    /\ discovery.objects[1].closed
    /\ discovery.got.called
    /\ discovery.got.ret = discovery.global

\* ------------------------------------------------- batch processor actions
BatchStep(b) ==
    /\ batch' = b
    /\ UNCHANGED <<threads, scraper, k8s, static_sd, singleton, discovery>>
    /\ UNCHANGED routerVars
    /\ UNCHANGED monitorVars
    /\ UNCHANGED handlerVars

\* create_batch: a row with status pending.
CreateBatch ==
    /\ Cardinality(DOMAIN batch.status) < MaxBatches
    /\ BatchStep([batch EXCEPT
                    !.status = Put(@, Cardinality(DOMAIN batch.status) + 1,
                                   "pending")])

\* process_batches: the SELECT returns a pending batch, the oldest by
\* created_at (whole seconds: any of those of the same second). With no
\* pending batch the task sleeps and selects again.
WorkerSelects ==
    /\ batch.worker.pc = "select"
    /\ \E batch_id \in {b \in DOMAIN batch.status : batch.status[b] = "pending"} :
         BatchStep([batch EXCEPT !.worker.pc = "mark",
                                 !.worker.batch_id = batch_id])

\* process_batches: UPDATE ... SET status = running WHERE batch_id = ?
WorkerMarksRunning ==
    /\ batch.worker.pc = "mark"
    /\ BatchStep([batch EXCEPT !.status[batch.worker.batch_id] = "running",
                               !.worker.pc = "processing"])

\* process_batches: the try block ends, by save_file returning (completed)
\* or by an exception (failed).
WorkerProcesses ==
    /\ batch.worker.pc = "processing"
    /\ \E new_status \in {"completed", "failed"} :
         BatchStep([batch EXCEPT !.worker.pc = "store",
                                 !.worker.new_status = new_status])

\* process_batches: UPDATE ... SET status = new_status WHERE batch_id = ?
WorkerStores ==
    /\ batch.worker.pc = "store"
    /\ BatchStep([batch EXCEPT
                    !.status[batch.worker.batch_id] = batch.worker.new_status,
                    !.worker = [pc |-> "select", batch_id |-> NoBatchId,
                                new_status |-> "none"]])

\* cancel_batch: retrieve_batch returns the row (for a row already
\* cancelled BatchStatus("cancelled") raises and the call is over).
CancelRetrieves ==
    /\ batch.cancel.pc = "idle"
    /\ \E batch_id \in {b \in DOMAIN batch.status : batch.status[b] # "cancelled"} :
         BatchStep([batch EXCEPT
                      !.cancel = [pc |-> "retrieved", batch_id |-> batch_id,
                                  status |-> batch.status[batch_id]]])

\* cancel_batch: unless the status retrieved is completed or failed,
\* UPDATE ... SET status = cancelled WHERE batch_id = ?
CancelUpdates ==
    /\ batch.cancel.pc = "retrieved"
    /\ IF batch.cancel.status \notin {"completed", "failed"}
       THEN BatchStep([batch EXCEPT
                         !.status[batch.cancel.batch_id] = "cancelled",
                         !.stored_cancelled = @ \cup {batch.cancel.batch_id},
                         !.cancel = [pc |-> "idle", batch_id |-> NoBatchId,
                                     status |-> "none"]])
       ELSE BatchStep([batch EXCEPT
                         !.cancel = [pc |-> "idle", batch_id |-> NoBatchId,
                                     status |-> "none"]])

NextBatch ==
    \/ CreateBatch
    \/ WorkerSelects
    \/ WorkerMarksRunning
    \/ WorkerProcesses
    \/ WorkerStores
    \/ CancelRetrieves
    \/ CancelUpdates

SpecBatch == Init /\ [][NextBatch]_vars

\* C40: once cancel_batch has stored the status cancelled for a batch, the
\* processing loop never overwrites it with completed or failed, also when
\* the cancel arrives while the batch is running.
C40_CancelledStays ==
    \A b \in batch.stored_cancelled :
        batch.status[b] \notin {"completed", "failed"}

====
